---------------------------- MODULE Spec2Model ----------------------------
(***************************************************************************)
(* State-machine model of the selector / endpoint discovery and the        *)
(* resilient-locator code of the AppRabbit testing framework:              *)
(*                                                                         *)
(*   BasePage.findElementWithFallbacks        src/BasePage.ts              *)
(*   LoginPage (authored candidate lists)     src/unnamed/part_000         *)
(*   SelectorDiscovery                        src/unnamed/part_000         *)
(*   EndpointDiscovery                        src/discover-endpoints.ts    *)
(*                                                                         *)
(* JavaScript strings on which the code works character by character are   *)
(* sequences of one-character strings; the others are TLA+ strings.  A     *)
(* generated text (template literal) is the sequence of its pieces: the    *)
(* literal chunks and the interpolated values, in order.                   *)
(***************************************************************************)
EXTENDS Integers, Sequences, FiniteSets, TLC

VARIABLES
    \* ---- one resolution against a live page (BasePage / SelectorDiscovery)
    dom,          \* the live page: selector -> what a probe of it meets
    resolver,     \* which resolver runs: "none", "findElementWithFallbacks", "findBestSelector"
    selectors,    \* the candidate list handed to the resolver
    elementName,  \* findBestSelector's elementName argument (characters)
    idx,          \* position of the for-of loop in selectors
    probed,       \* selectors probed so far in this resolution, in probe order
    result,       \* what the resolution gave its caller
    elapsed,      \* milliseconds this resolution has spent waiting in its probes
    \* ---- one run of EndpointDiscovery against a live API server
    server,       \* the live API: <<method, path>> -> the answer to a request
    apc,          \* position of EndpointDiscovery.run
    pathIdx,      \* position of the for-of loop over commonPaths
    verbIdx,      \* 1: the GET call of the loop body is next, 2: the POST call
    attempts,     \* the HTTP requests issued so far, in order
    discoveredEndpoints,  \* EndpointDiscovery.discoveredEndpoints
    baseUrl,      \* EndpointDiscovery.baseUrl
    \* ---- one run of SelectorDiscovery against the live page dom
    upc,          \* position of SelectorDiscovery.run
    browserOpen,  \* the browser launched by initialize is still open
    pageUrl,      \* the path the browser page is at ("" before any goto)
    catIdx,       \* the next findBestSelector call of the running discover method
    localSelectors,   \* its local array (loginSelectors / dashboardSelectors)
    discoveredPages,  \* SelectorDiscovery.discoveredPages
    genIdx,       \* position of the for-of loop of generatePageObjects
    uiError,      \* the exception propagating out of run's try block ("" when none)
    \* ---- the ApiClient test helper, used against the same live API
    available,    \* <<>>, or the last isEndpointAvailable call and its result
    \* ---- a generated page-object accessor in use
    stub,         \* <<>>, or the DiscoveredSelector the accessor was generated from
    \* ---- histories and flows of the later specifications
    previous,     \* the results of the earlier resolutions of the same element
    inflight,     \* the probes issued against the live target and not yet settled
    flows,        \* concurrent discovery flows: flow -> its own state
    \* ---- hand-written helpers in use by a test
    call,         \* <<>>, or the operation a test called and its outcome
    authToken,    \* ApiClient.authToken ("" when undefined)
    sent,         \* the requests the ApiClient has sent, oldest first
    jira,         \* the JiraClient call: its position, the tracker's log, its outcome
    \* ---- the history of stub generations
    emissions,    \* one entry per generated source text, oldest first
    \* ---- the environment shared by the flows
    files,        \* the file system: file name -> content
    clock         \* the wall clock read by new Date()

resolveVars == <<dom, resolver, selectors, elementName, idx, probed, result, elapsed>>
apiVars == <<server, apc, pathIdx, verbIdx, attempts, discoveredEndpoints, baseUrl>>
uiVars == <<upc, browserOpen, pageUrl, catIdx, localSelectors, discoveredPages,
            genIdx, uiError>>
clientVars == <<available>>
emitVars == <<emissions>>
stubVars == <<stub>>
restVars == <<previous, inflight, flows>>
helperVars == <<call, authToken, sent, jira>>
envVars == <<files, clock>>

-----------------------------------------------------------------------------
(* Bounds of the model *)

\* at most this many selectors of a candidate list meet something other than
\* "no such element" on the live page
MaxPresent == 2

\* at most this many selectors of the discovery catalog meet something other
\* than "no such element" on the page a discovery run probes
MaxPresentUi == 1

\* at most this many routes of the API answer differently from the server's
\* default answer
MaxRoutes == 1

\* at most this many source texts are generated from one discovery record
MaxEmissions == 2

\* the clock advances at most this far while texts are generated
MaxClock == 1

-----------------------------------------------------------------------------
(* Generic helpers *)

Range(s) == {s[i] : i \in 1..Len(s)}

RECURSIVE SubsetsUpTo(_, _)
\* the subsets of S with at most k elements
SubsetsUpTo(S, k) ==
    IF k = 0 THEN {{}}
    ELSE LET smaller == SubsetsUpTo(S, k - 1) IN
         smaller \cup {Q \cup {x} : Q \in smaller, x \in S}

RECURSIVE Str(_)
\* the string made of the characters cs
Str(cs) == IF cs = <<>> THEN "" ELSE Head(cs) \o Str(Tail(cs))

RECURSIVE SelectSeqBy(_, _)
\* Array.prototype.filter with "keep the entries different from x"
SelectSeqBy(s, x) ==
    IF s = <<>> THEN <<>>
    ELSE IF Head(s) # x THEN <<Head(s)>> \o SelectSeqBy(Tail(s), x)
         ELSE SelectSeqBy(Tail(s), x)

RECURSIVE JoinPieces(_, _)
\* Array.prototype.join(sep) as pieces: <<s1, sep, s2, sep, ..., sn>>
JoinPieces(s, sep) ==
    IF s = <<>> THEN <<>>
    ELSE IF Len(s) = 1 THEN <<s[1]>>
    ELSE <<Head(s), sep>> \o JoinPieces(Tail(s), sep)

RECURSIVE Flatten(_)
\* concatenation of a sequence of sequences
Flatten(ss) == IF ss = <<>> THEN <<>> ELSE Head(ss) \o Flatten(Tail(ss))

Whitespace == {" ", "\t", "\n", "\r", "\f"}

RECURSIVE RemoveWhitespace(_)
\* String.prototype.replace(/\s+/g, '')
RemoveWhitespace(cs) ==
    IF cs = <<>> THEN <<>>
    ELSE IF Head(cs) \in Whitespace THEN RemoveWhitespace(Tail(cs))
         ELSE <<Head(cs)>> \o RemoveWhitespace(Tail(cs))

UpperCase == <<"A","B","C","D","E","F","G","H","I","J","K","L","M",
               "N","O","P","Q","R","S","T","U","V","W","X","Y","Z">>
LowerCase == <<"a","b","c","d","e","f","g","h","i","j","k","l","m",
               "n","o","p","q","r","s","t","u","v","w","x","y","z">>

LowerChar(c) ==
    IF \E i \in 1..26 : UpperCase[i] = c
    THEN LowerCase[CHOOSE i \in 1..26 : UpperCase[i] = c]
    ELSE c

\* String.prototype.toLowerCase()
ToLowerCase(cs) == [i \in 1..Len(cs) |-> LowerChar(cs[i])]

RECURSIVE TrimStart(_)
TrimStart(cs) ==
    IF cs # <<>> /\ Head(cs) \in Whitespace THEN TrimStart(Tail(cs)) ELSE cs

RECURSIVE TrimEnd(_)
TrimEnd(cs) ==
    IF cs # <<>> /\ cs[Len(cs)] \in Whitespace
    THEN TrimEnd(SubSeq(cs, 1, Len(cs) - 1)) ELSE cs

\* String.prototype.trim()
Trim(cs) == TrimEnd(TrimStart(cs))

-----------------------------------------------------------------------------
(* Candidate lists authored in the page objects (runtime resolution) *)

LoginPage_emailInput ==
    << "input[type=\"email\"]", "input[name=\"email\"]", "#email", ".email-input",
       "[data-testid=\"email\"]", "input[placeholder*=\"email\" i]" >>

LoginPage_passwordInput ==
    << "input[type=\"password\"]", "input[name=\"password\"]", "#password",
       ".password-input", "[data-testid=\"password\"]",
       "input[placeholder*=\"password\" i]" >>

LoginPage_loginButton ==
    << "button[type=\"submit\"]", "input[type=\"submit\"]", ".login-button",
       "#login-btn", "[data-testid=\"login-button\"]", "button:has-text(\"Login\")",
       "button:has-text(\"Sign In\")", "button:has-text(\"Log In\")" >>

LoginPage_errorMessage ==
    << ".error", ".alert-danger", ".error-message", "[data-testid=\"error\"]",
       ".notification.error", ".toast.error", ".alert.error" >>

LoginPage_forgotPasswordLink ==
    << "a[href*=\"forgot\"]", ".forgot-password", "[data-testid=\"forgot-password\"]",
       "a:has-text(\"Forgot\")", "a:has-text(\"Reset\")" >>

\* the candidate lists authored in DashboardPage
DashboardPage_dashboardContainer ==
    << ".dashboard", "#dashboard", "[data-testid=\"dashboard\"]", ".main-content",
       ".app-content", ".dashboard-content" >>

DashboardPage_userMenu ==
    << ".user-menu", ".profile-dropdown", "[data-testid=\"user-menu\"]", ".avatar",
       ".user-avatar", ".profile-avatar" >>

DashboardPage_navigationMenu ==
    << ".nav", ".navigation", ".sidebar", "[data-testid=\"navigation\"]", ".main-nav",
       ".side-nav" >>

DashboardPage_logoutButton ==
    << "button:has-text(\"Logout\")", "button:has-text(\"Sign Out\")",
       "a:has-text(\"Logout\")", "[data-testid=\"logout\"]", ".logout-button" >>

DashboardPage_appsSection ==
    << ".apps", "#apps", "[data-testid=\"apps\"]", ".applications", ".app-list" >>

\* the getters of the page objects: the logical element each one locates and
\* the list it hands to findElementWithFallbacks
Getters ==
    { [name |-> "emailInput",         selectors |-> LoginPage_emailInput],
      [name |-> "passwordInput",      selectors |-> LoginPage_passwordInput],
      [name |-> "loginButton",        selectors |-> LoginPage_loginButton],
      [name |-> "errorMessage",       selectors |-> LoginPage_errorMessage],
      [name |-> "forgotPasswordLink", selectors |-> LoginPage_forgotPasswordLink],
      [name |-> "dashboardContainer", selectors |-> DashboardPage_dashboardContainer],
      [name |-> "userMenu",           selectors |-> DashboardPage_userMenu],
      [name |-> "navigationMenu",     selectors |-> DashboardPage_navigationMenu],
      [name |-> "logoutButton",       selectors |-> DashboardPage_logoutButton],
      [name |-> "appsSection",        selectors |-> DashboardPage_appsSection] }

\* the lists the page objects hand to findElementWithFallbacks
AuthoredLists == {g.selectors : g \in Getters}

-----------------------------------------------------------------------------
(* Catalog of SelectorDiscovery: (elementName, candidate list) pairs *)

emailSelectors ==
    << "input[type=\"email\"]", "input[name=\"email\"]", "#email", ".email-input",
       "[data-testid=\"email\"]", "input[placeholder*=\"email\" i]" >>

passwordSelectors ==
    << "input[type=\"password\"]", "input[name=\"password\"]", "#password",
       ".password-input", "[data-testid=\"password\"]",
       "input[placeholder*=\"password\" i]" >>

loginButtonSelectors ==
    << "button[type=\"submit\"]", "input[type=\"submit\"]", ".login-button",
       "#login-btn", "[data-testid=\"login-button\"]", "button:has-text(\"Login\")",
       "button:has-text(\"Sign In\")" >>

errorSelectors ==
    << ".error", ".alert-danger", ".error-message", "[data-testid=\"error\"]",
       ".notification.error", ".toast.error" >>

dashboardElementSelectors ==
    << ".dashboard", "#dashboard", "[data-testid=\"dashboard\"]", ".main-content",
       ".app-content" >>

profileSelectors ==
    << ".user-menu", ".profile-dropdown", "[data-testid=\"user-menu\"]", ".avatar",
       ".user-avatar" >>

\* faulty variant: a list that repeats one of its entries
navSelectors_dup ==
    << ".nav", ".navigation", ".sidebar", ".nav", ".main-nav" >>

navSelectors ==
    << ".nav", ".navigation", ".sidebar", "[data-testid=\"navigation\"]", ".main-nav" >>

\* the findBestSelector calls of discoverLoginPage, in call order
LoginCatalog ==
    << [elementName |-> <<"E","m","a","i","l"," ","I","n","p","u","t">>,
        selectors   |-> emailSelectors],
       [elementName |-> <<"P","a","s","s","w","o","r","d"," ","I","n","p","u","t">>,
        selectors   |-> passwordSelectors],
       [elementName |-> <<"L","o","g","i","n"," ","B","u","t","t","o","n">>,
        selectors   |-> loginButtonSelectors],
       [elementName |-> <<"E","r","r","o","r"," ","M","e","s","s","a","g","e">>,
        selectors   |-> errorSelectors] >>

\* the findBestSelector calls of discoverDashboardPage, in call order
DashboardCatalog ==
    << [elementName |-> <<"D","a","s","h","b","o","a","r","d"," ",
                          "C","o","n","t","a","i","n","e","r">>,
        selectors   |-> dashboardElementSelectors],
       [elementName |-> <<"U","s","e","r"," ","P","r","o","f","i","l","e">>,
        selectors   |-> profileSelectors],
       [elementName |-> <<"N","a","v","i","g","a","t","i","o","n"," ","M","e","n","u">>,
        selectors   |-> navSelectors] >>

Catalog == LoginCatalog \o DashboardCatalog

-----------------------------------------------------------------------------
(* The live page *)

\* what a probe of one selector can meet on the page
Absent   == [kind |-> "absent",   isVisible |-> FALSE, tagName |-> "",      text |-> <<>>]
\* the selector engine rejects the selector: locating it throws
Invalid  == [kind |-> "invalid",  isVisible |-> FALSE, tagName |-> "",      text |-> <<>>]
\* an element is found, but it leaves the page before its metadata is read
Detached == [kind |-> "detached", isVisible |-> FALSE, tagName |-> "",      text |-> <<>>]
Hidden   == [kind |-> "element",  isVisible |-> FALSE, tagName |-> "div",   text |-> <<" ","O","K"," ">>]
Visible  == [kind |-> "element",  isVisible |-> TRUE,  tagName |-> "input", text |-> <<>>]

NonAbsent == {Invalid, Detached, Hidden, Visible}

\* the pages over the selectors of list L on which at most MaxPresent of them
\* meet something
Doms(L) ==
    UNION { { [s \in Range(L) |-> IF s \in P THEN f[s] ELSE Absent] :
                f \in [P -> NonAbsent] } :
            P \in SubsetsUpTo(Range(L), MaxPresent) }


-----------------------------------------------------------------------------
(* Results of a resolution *)

Pending == [status |-> "pending", selector |-> "", message |-> <<>>, found |-> <<>>]

\* findElementWithFallbacks returned page.locator(selector)
ReturnedLocator(selector) ==
    [status |-> "returned", selector |-> selector, message |-> <<>>, found |-> <<>>]

\* faulty variant: the message names only the last selector tried
ThrownError_lastOnly(sels) ==
    [status |-> "thrown", selector |-> "",
     message |-> <<"Could not find element with any of these selectors: ">>
                    \o (IF sels = <<>> THEN <<>> ELSE <<sels[Len(sels)]>>),
     found |-> <<>>]

\* throw new Error('Could not find element with any of these selectors: ' + selectors.join(', '))
ThrownError(sels) ==
    [status |-> "thrown", selector |-> "",
     message |-> <<"Could not find element with any of these selectors: ">>
                    \o JoinPieces(sels, ", "),
     found |-> <<>>]

\* text?.trim() || undefined   (<<>> is undefined, <<t>> the text t)
hasTextOf(text) == IF Trim(text) = <<>> THEN <<>> ELSE <<Str(Trim(text))>>

\* faulty variant: the fallbacks are the whole list, matched entry included
DiscoveredSelector_keepAll(sels, name, selector, el) ==
    [name              |-> RemoveWhitespace(name),
     selector          |-> selector,
     fallbackSelectors |-> sels,
     elementType       |-> el.tagName,
     isVisible         |-> el.isVisible,
     hasText           |-> hasTextOf(el.text)]

\* faulty variant: a matched element is recorded as visible without asking
DiscoveredSelector_assumeVisible(sels, name, selector, el) ==
    [name              |-> RemoveWhitespace(name),
     selector          |-> selector,
     fallbackSelectors |-> SelectSeqBy(sels, selector),
     elementType       |-> el.tagName,
     isVisible         |-> TRUE,
     hasText           |-> hasTextOf(el.text)]

\* the DiscoveredSelector literal findBestSelector returns
DiscoveredSelector(sels, name, selector, el) ==
    [name              |-> RemoveWhitespace(name),
     selector          |-> selector,
     fallbackSelectors |-> SelectSeqBy(sels, selector),
     elementType       |-> el.tagName,
     isVisible         |-> el.isVisible,
     hasText           |-> hasTextOf(el.text)]

ReturnedSelector(d) ==
    [status |-> "returned", selector |-> d.selector, message |-> <<>>, found |-> <<d>>]

\* findBestSelector returned null
ReturnedNull == [status |-> "returned", selector |-> "", message |-> <<>>, found |-> <<>>]

-----------------------------------------------------------------------------
(* BasePage.findElementWithFallbacks *)

\* await page.locator(selector).waitFor({ timeout: 5000 }): resolves (TRUE) when
\* the element is visible within the timeout (waitFor's default state), and
\* throws (FALSE) otherwise
waitFor(el) == el.kind = "element" /\ el.isVisible

\* faulty variant: the locator is returned without awaiting waitFor
findElementWithFallbacks_iter_nowait(sels, i, d) ==
    [idx |-> i, result |-> ReturnedLocator(sels[i])]

\* faulty variant: no try/catch around the probe, a selector the engine
\* rejects aborts the resolution
findElementWithFallbacks_iter_nocatch(sels, i, d) ==
    IF d[sels[i]].kind = "invalid"
    THEN [idx |-> i,
          result |-> [status |-> "thrown", selector |-> "",
                      message |-> <<"Unexpected token while parsing selector">>,
                      found |-> <<>>]]
    ELSE IF waitFor(d[sels[i]])
         THEN [idx |-> i, result |-> ReturnedLocator(sels[i])]
         ELSE IF i < Len(sels)
              THEN [idx |-> i + 1, result |-> Pending]
              ELSE [idx |-> i + 1,
                    result |-> [status |-> "thrown", selector |-> "",
                                message |-> <<"Could not find element with any of these selectors: ">>
                                               \o JoinPieces(sels, ", "),
                                found |-> <<>>]]

\* faulty variant: a locator found by an earlier resolution is kept and given
\* again without probing
findElementWithFallbacks_iter_memo(sels, i, d) ==
    IF previous # <<>> /\ previous[Len(previous)].status = "returned"
    THEN [idx |-> i, result |-> previous[Len(previous)]]
    ELSE IF waitFor(d[sels[i]])
         THEN [idx |-> i, result |-> ReturnedLocator(sels[i])]
         ELSE IF i < Len(sels)
              THEN [idx |-> i + 1, result |-> Pending]
              ELSE [idx |-> i + 1, result |-> ThrownError(sels)]

\* faulty variant: the first failed probe ends the resolution with the error
findElementWithFallbacks_iter_giveUp(sels, i, d) ==
    IF waitFor(d[sels[i]])
    THEN [idx |-> i, result |-> ReturnedLocator(sels[i])]
    ELSE [idx |-> i + 1, result |-> ThrownError(sels)]

\* one iteration of the for-of loop at position i, followed by the throw after
\* the loop when the list is exhausted
findElementWithFallbacks_iter(sels, i, d) ==
    IF waitFor(d[sels[i]])
    THEN [idx |-> i, result |-> ReturnedLocator(sels[i])]
    ELSE IF i < Len(sels)
         THEN [idx |-> i + 1, result |-> Pending]
         ELSE [idx |-> i + 1, result |-> ThrownError(sels)]

\* the timeout option of element.waitFor, in milliseconds
ProbeTimeout == 5000

\* how long await element.waitFor({ timeout: 5000 }) can take: it resolves as
\* soon as the element is visible, at the latest at the timeout; it rejects
\* at once when the selector is rejected, and at the timeout otherwise
waitTimes(el) ==
    IF waitFor(el) THEN {0, ProbeTimeout}
    ELSE IF el.kind = "invalid" THEN {0}
    ELSE {ProbeTimeout}

\* a page-object getter calls findElementWithFallbacks(selectors)
FEWF_Call ==
    /\ resolver = "none"
    /\ selectors \in AuthoredLists
    /\ resolver' = "findElementWithFallbacks"
    /\ idx' = 1
    /\ probed' = <<>>
    /\ result' = IF selectors = <<>> THEN ThrownError(selectors) ELSE Pending
    /\ UNCHANGED <<dom, selectors, elementName>>
    /\ UNCHANGED <<apiVars, uiVars, envVars>>
    /\ UNCHANGED <<clientVars, emitVars, stubVars, restVars, helperVars>>
    /\ elapsed' = 0

FEWF_Iterate ==
    /\ resolver = "findElementWithFallbacks"
    /\ result.status = "pending"
    /\ idx <= Len(selectors)
    /\ LET next == findElementWithFallbacks_iter(selectors, idx, dom) IN
         /\ idx' = next.idx
         /\ result' = next.result
    /\ probed' = Append(probed, selectors[idx])
    /\ UNCHANGED <<dom, resolver, selectors, elementName>>
    /\ UNCHANGED <<apiVars, uiVars, envVars>>
    /\ UNCHANGED <<clientVars, emitVars, stubVars, restVars, helperVars>>
    /\ \E t \in waitTimes(dom[selectors[idx]]) : elapsed' = elapsed + t

-----------------------------------------------------------------------------
(* SelectorDiscovery.findBestSelector *)

\* faulty variant: an element that exists but is hidden is passed over
findBestSelector_iter_visibleOnly(sels, name, i, d) ==
    LET selector == sels[i]
        el       == d[selector]
    IN  IF el.kind = "element" /\ el.isVisible
        THEN [idx |-> i,
              result |-> ReturnedSelector(DiscoveredSelector(sels, name, selector, el))]
        ELSE IF i < Len(sels)
             THEN [idx |-> i + 1, result |-> Pending]
             ELSE [idx |-> i + 1, result |-> ReturnedNull]

\* faulty variant: a match is only remembered, the loop goes on to the end
\* of the list and the last match is returned
findBestSelector_iter_lastMatch(sels, name, i, d) ==
    LET matching == {j \in 1..i : d[sels[j]].kind = "element"}
        last     == CHOOSE j \in matching : \A k \in matching : k <= j
    IN  IF i < Len(sels)
        THEN [idx |-> i + 1, result |-> Pending]
        ELSE IF matching = {}
             THEN [idx |-> i + 1, result |-> ReturnedNull]
             ELSE [idx |-> i,
                   result |-> ReturnedSelector(
                                  DiscoveredSelector(sels, name, sels[last], d[sels[last]]))]

\* one iteration of the for-of loop at position i, followed by the return null
\* after the loop when the list is exhausted
findBestSelector_iter(sels, name, i, d) ==
    LET selector == sels[i]
        el       == d[selector]
        continue == IF i < Len(sels)
                    THEN [idx |-> i + 1, result |-> Pending]
                    ELSE [idx |-> i + 1, result |-> ReturnedNull]
    IN  CASE el.kind = "invalid"  -> continue   \* page.$ throws: catch, continue
          [] el.kind = "absent"   -> continue   \* page.$ gives null: next iteration
          [] el.kind = "detached" -> continue   \* reading the metadata throws: catch
          [] OTHER ->
               [idx |-> i,
                result |-> ReturnedSelector(DiscoveredSelector(sels, name, selector, el))]

\* discovery calls findBestSelector(selectors, elementName)
FBS_Call ==
    /\ resolver = "none"
    /\ \E c \in Range(Catalog) : c.selectors = selectors /\ c.elementName = elementName
    /\ resolver' = "findBestSelector"
    /\ idx' = 1
    /\ probed' = <<>>
    /\ result' = IF selectors = <<>> THEN ReturnedNull ELSE Pending
    /\ UNCHANGED <<dom, selectors, elementName>>
    /\ UNCHANGED <<apiVars, uiVars, envVars>>
    /\ UNCHANGED <<clientVars, emitVars, stubVars, restVars, helperVars>>
    /\ elapsed' = 0

FBS_Iterate ==
    /\ resolver = "findBestSelector"
    /\ result.status = "pending"
    /\ idx <= Len(selectors)
    /\ LET next == findBestSelector_iter(selectors, elementName, idx, dom) IN
         /\ idx' = next.idx
         /\ result' = next.result
    /\ probed' = Append(probed, selectors[idx])
    /\ UNCHANGED <<dom, resolver, selectors, elementName>>
    /\ UNCHANGED <<apiVars, uiVars, envVars>>
    /\ UNCHANGED <<clientVars, emitVars, stubVars, restVars, helperVars>>
    /\ UNCHANGED elapsed

\* the caller takes the result; the next resolution starts from scratch
Resolved ==
    /\ resolver # "none"
    /\ result.status # "pending"
    /\ resolver' = "none"
    /\ idx' = 1
    /\ probed' = <<>>
    /\ result' = Pending
    /\ UNCHANGED <<dom, selectors, elementName>>
    /\ UNCHANGED <<apiVars, uiVars, envVars>>
    /\ UNCHANGED <<clientVars, emitVars, stubVars, restVars, helperVars>>
    /\ elapsed' = 0


-----------------------------------------------------------------------------
(* EndpointDiscovery: the catalog and the live API *)

\* the commonPaths literal of discoverFromNetworkRequests, as characters
commonPathChars ==
    << <<"/","a","u","t","h","/","l","o","g","i","n">>,
       <<"/","a","u","t","h","/","l","o","g","o","u","t">>,
       <<"/","a","u","t","h","/","r","e","g","i","s","t","e","r">>,
       <<"/","a","u","t","h","/","f","o","r","g","o","t","-","p","a","s","s","w","o","r","d">>,
       <<"/","u","s","e","r","/","p","r","o","f","i","l","e">>,
       <<"/","u","s","e","r","/","s","e","t","t","i","n","g","s">>,
       <<"/","a","p","p","s">>,
       <<"/","a","p","p","s","/",":","i","d">>,
       <<"/","p","r","o","j","e","c","t","s">>,
       <<"/","p","r","o","j","e","c","t","s","/",":","i","d">>,
       <<"/","a","p","i","/","v","1","/","u","s","e","r","s">>,
       <<"/","a","p","i","/","v","1","/","a","u","t","h">>,
       <<"/","a","p","i","/","v","1","/","p","r","o","j","e","c","t","s">>
    >>

\* the same literal as strings: '/auth/login', '/auth/logout', ...
commonPaths == [i \in 1..Len(commonPathChars) |-> Str(commonPathChars[i])]

\* the characters of a path string of the catalog
CharsOf(path) ==
    commonPathChars[CHOOSE i \in 1..Len(commonPaths) : commonPaths[i] = path]

\* the verbs of the loop body: testEndpoint('GET', path); testEndpoint('POST', path)
Verbs == <<"GET", "POST">>

Routes == {<<m, q>> : m \in Range(Verbs), q \in Range(commonPaths)}

\* axios rejects: connection refused, DNS failure, or the 5000 ms timeout
NoResponse == [received |-> FALSE, status |-> 0]
Response(status) == [received |-> TRUE, status |-> status]

\* the status codes a route answers with in the model
Statuses == {200, 401, 403, 404, 500}

Answers == {NoResponse} \cup {Response(st) : st \in Statuses}

\* the routes an API may implement: those of the paths the framework knows
\* the function of
KnownRoutes ==
    {r \in Routes : r[2] \in {"/auth/login", "/auth/logout", "/auth/register",
                              "/user/profile", "/apps", "/projects"}}

\* the servers: every route gives the default answer (no answer at all, or
\* 404), except at most MaxRoutes known routes that give another one
Servers ==
    UNION { UNION { { [r \in Routes |-> IF r \in P THEN f[r] ELSE dflt] :
                        f \in [P -> Answers \ {dflt}] } :
                    P \in SubsetsUpTo(KnownRoutes, MaxRoutes) } :
            dflt \in {NoResponse, Response(404)} }

\* process.env.APPRABBIT_API_URL || 'https://api.apprabbit.com'
baseUrlOf(env) == IF env = "" THEN "https://api.apprabbit.com" ELSE env

-----------------------------------------------------------------------------
(* EndpointDiscovery.testEndpoint *)

getEndpointDescription(path) ==
    CASE path = "/auth/login"    -> "Authenticate user with email/password"
      [] path = "/auth/logout"   -> "Logout current user session"
      [] path = "/auth/register" -> "Register new user account"
      [] path = "/user/profile"  -> "Get/Update user profile information"
      [] path = "/apps"          -> "List user applications"
      [] path = "/projects"      -> "List user projects"
      [] OTHER                   -> "Unknown endpoint function"

\* faulty variant: 403 counts as "authorization required" too
testEndpoint_auth403(srv, method, path, endpoints) ==
    LET response == srv[<<method, path>>] IN
    IF ~response.received
    THEN [endpoints |-> endpoints, threw |-> FALSE]
    ELSE [endpoints |-> Append(endpoints,
                          [method       |-> method,
                           url          |-> path,
                           description  |-> getEndpointDescription(path),
                           authRequired |-> response.status \in {401, 403}]),
          threw |-> FALSE]

\* faulty variant: no try/catch, a request that gets no response rejects
testEndpoint_nocatch(srv, method, path, endpoints) ==
    LET response == srv[<<method, path>>] IN
    IF ~response.received
    THEN [endpoints |-> endpoints, threw |-> TRUE]
    ELSE [endpoints |-> Append(endpoints,
                          [method       |-> method,
                           url          |-> path,
                           description  |-> getEndpointDescription(path),
                           authRequired |-> response.status = 401]),
          threw |-> FALSE]

\* testEndpoint(method, path): the request is made with validateStatus: () => true,
\* so every status resolves; a rejected request is caught and only logged.
\* Gives the new discoveredEndpoints and whether the call threw.
testEndpoint(srv, method, path, endpoints) ==
    LET response == srv[<<method, path>>] IN
    IF ~response.received
    THEN [endpoints |-> endpoints, threw |-> FALSE]
    ELSE [endpoints |-> Append(endpoints,
                          [method       |-> method,
                           url          |-> path,
                           description  |-> getEndpointDescription(path),
                           authRequired |-> response.status = 401]),
          threw |-> FALSE]

-----------------------------------------------------------------------------
(* The file system *)

FileNames ==
    { "src/api/generated-client.ts", "discovered-endpoints.json",
      "src/pages/LoginPage.ts", "src/pages/DashboardPage.ts",
      "discovered-selectors.json" }

\* a file: a generated source text (pieces) or a JSON document (<<value>>)
NoFile == [exists |-> FALSE, text |-> <<>>, json |-> <<>>]
TextFile(text) == [exists |-> TRUE, text |-> text, json |-> <<>>]
JsonFile(value) == [exists |-> TRUE, text |-> <<>>, json |-> <<value>>]

NoFiles == [f \in FileNames |-> NoFile]

\* fs.promises.writeFile(filename, content), when it succeeds
writeFile(fs, filename, content) == [fs EXCEPT ![filename] = content]

-----------------------------------------------------------------------------
(* EndpointDiscovery.pathToMethodName and generateMethodForEndpoint *)

Digits == {"0","1","2","3","4","5","6","7","8","9"}

WordChars == Range(UpperCase) \cup Range(LowerCase) \cup Digits \cup {"_"}

RECURSIVE RunEnd(_, _, _)
\* the last position of the longest run of characters of set C that starts at
\* position j of cs (j - 1 when there is none)
RunEnd(cs, j, C) ==
    IF j <= Len(cs) /\ cs[j] \in C THEN RunEnd(cs, j + 1, C) ELSE j - 1

\* where a match of /\/api\/v\d+\// that starts at position i ends (0: no match)
ApiVersionMatchEnd(cs, i) ==
    IF i + 5 <= Len(cs) /\ SubSeq(cs, i, i + 5) = <<"/","a","p","i","/","v">>
    THEN LET k == RunEnd(cs, i + 6, Digits) IN
         IF k >= i + 6 /\ k + 1 <= Len(cs) /\ cs[k + 1] = "/" THEN k + 1 ELSE 0
    ELSE 0

\* .replace(/\/api\/v\d+\//, '')   (no g flag: the first match only)
RemoveApiVersion(cs) ==
    LET M == {i \in 1..Len(cs) : ApiVersionMatchEnd(cs, i) > 0} IN
    IF M = {} THEN cs
    ELSE LET i == CHOOSE m \in M : \A n \in M : m <= n IN
         SubSeq(cs, 1, i - 1) \o SubSeq(cs, ApiVersionMatchEnd(cs, i) + 1, Len(cs))

\* .replace(/[\/:-]/g, '_')
ReplaceSpecialChars(cs) ==
    [i \in 1..Len(cs) |-> IF cs[i] \in {"/", ":", "-"} THEN "_" ELSE cs[i]]

RECURSIVE CollapseUnderscores(_)
\* .replace(/_+/g, '_')
CollapseUnderscores(cs) ==
    IF Len(cs) < 2 THEN cs
    ELSE IF cs[1] = "_" /\ cs[2] = "_" THEN CollapseUnderscores(Tail(cs))
         ELSE <<cs[1]>> \o CollapseUnderscores(Tail(cs))

\* .replace(/^_|_$/g, '')
StripUnderscoreEnds(cs) ==
    LET a == IF cs # <<>> /\ cs[1] = "_" THEN Tail(cs) ELSE cs IN
    IF a # <<>> /\ a[Len(a)] = "_" THEN SubSeq(a, 1, Len(a) - 1) ELSE a

pathToMethodName(path) ==
    ToLowerCase(StripUnderscoreEnds(CollapseUnderscores(
        ReplaceSpecialChars(RemoveApiVersion(path)))))

RECURSIVE ExpandParams(_)
\* endpoint.url.replace(/:(\w+)/g, '${$1}')
ExpandParams(cs) ==
    IF cs = <<>> THEN <<>>
    ELSE IF cs[1] = ":" /\ RunEnd(cs, 2, WordChars) >= 2
         THEN LET k == RunEnd(cs, 2, WordChars) IN
              <<"$", "{">> \o SubSeq(cs, 2, k) \o <<"}">>
                  \o ExpandParams(SubSeq(cs, k + 1, Len(cs)))
         ELSE <<cs[1]>> \o ExpandParams(Tail(cs))

\* the template literal of generateMethodForEndpoint, as pieces (<BT> stands for
\* the backquote character of the emitted text)
generateMethodForEndpoint(endpoint) ==
    LET methodName == pathToMethodName(CharsOf(endpoint.url))
        hasParams  == ":" \in Range(CharsOf(endpoint.url))
    IN  << "\n  async ", Str(methodName), "(",
           (IF hasParams THEN "params: any, " ELSE ""),
           "data?: any): Promise<any> {\n    const url = <BT>${this.baseUrl}",
           Str(ExpandParams(CharsOf(endpoint.url))),
           "<BT>;\n    const headers: any = { 'Content-Type': 'application/json' };\n    \n    ",
           (IF endpoint.authRequired
            THEN "if (this.authToken) headers.Authorization = <BT>Bearer ${this.authToken}<BT>;"
            ELSE ""),
           "\n    \n    const response = await fetch(url, {\n      method: '",
           endpoint.method,
           "',\n      headers,\n      ",
           (IF endpoint.method # "GET"
            THEN "body: data ? JSON.stringify(data) : undefined" ELSE ""),
           "\n    });\n    \n    return response.json();\n  }" >>

RECURSIVE JoinTexts(_, _)
\* texts.join(sep) for texts given as piece sequences
JoinTexts(texts, sep) ==
    IF texts = <<>> THEN <<>>
    ELSE IF Len(texts) = 1 THEN texts[1]
    ELSE texts[1] \o <<sep>> \o JoinTexts(Tail(texts), sep)

\* the apiClientCode template literal of generateApiClient, as pieces
apiClientCode(url, endpoints) ==
    << "\n// Auto-generated API client based on discovered endpoints\nexport class AppRabbitApiClient {\n  private baseUrl: string;\n  private authToken?: string;\n\n  constructor(baseUrl: string = '",
       url,
       "') {\n    this.baseUrl = baseUrl;\n  }\n\n  setAuthToken(token: string): void {\n    this.authToken = token;\n  }\n\n" >>
    \o JoinTexts([i \in 1..Len(endpoints) |-> generateMethodForEndpoint(endpoints[i])], "\n")
    \o << "\n}" >>

-----------------------------------------------------------------------------
(* EndpointDiscovery.run *)

\* for (const path of commonPaths) { await testEndpoint('GET', path);
\*                                   await testEndpoint('POST', path); }
\* one awaited testEndpoint call of discoverFromNetworkRequests
Api_TestEndpoint ==
    /\ apc = "discoverFromNetworkRequests"
    /\ pathIdx <= Len(commonPaths)
    /\ LET method == Verbs[verbIdx]
           path   == commonPaths[pathIdx]
           out    == testEndpoint(server, method, path, discoveredEndpoints)
           last   == pathIdx = Len(commonPaths) /\ verbIdx = Len(Verbs)
       IN  /\ attempts' = Append(attempts, <<method, path>>)
           /\ discoveredEndpoints' = out.endpoints
           /\ IF out.threw
              THEN apc' = "failed" /\ UNCHANGED <<pathIdx, verbIdx>>
              ELSE /\ apc' = IF last THEN "generateApiClient" ELSE apc
                   /\ IF verbIdx < Len(Verbs)
                      THEN verbIdx' = verbIdx + 1 /\ pathIdx' = pathIdx
                      ELSE verbIdx' = 1 /\ pathIdx' = pathIdx + 1
    /\ UNCHANGED <<server, baseUrl, envVars, resolveVars, uiVars>>
    /\ UNCHANGED <<clientVars, emitVars, stubVars, restVars, helperVars>>

\* generateApiClient: build the text, then await fs.promises.writeFile; a
\* rejected write rejects run()
Api_GenerateApiClient ==
    /\ apc = "generateApiClient"
    /\ \E writeOk \in BOOLEAN :
          IF writeOk
          THEN /\ files' = writeFile(files, "src/api/generated-client.ts",
                               TextFile(apiClientCode(baseUrl, discoveredEndpoints)))
               /\ apc' = "saveDiscoveredEndpoints"
          ELSE /\ files' = files
               /\ apc' = "failed"
    /\ UNCHANGED <<server, pathIdx, verbIdx, attempts, discoveredEndpoints, baseUrl,
                   clock, resolveVars, uiVars>>
    /\ UNCHANGED <<clientVars, emitVars, stubVars, restVars, helperVars>>

\* the output object of saveDiscoveredEndpoints (JSON.stringify keeps its
\* members in this order)
discoveredEndpointsOutput(now, url, endpoints) ==
    [discoveredAt |-> now, baseUrl |-> url, endpoints |-> endpoints]

Api_SaveDiscoveredEndpoints ==
    /\ apc = "saveDiscoveredEndpoints"
    /\ \E writeOk \in BOOLEAN :
          IF writeOk
          THEN /\ files' = writeFile(files, "discovered-endpoints.json",
                               JsonFile(discoveredEndpointsOutput(
                                            clock, baseUrl, discoveredEndpoints)))
               /\ apc' = "done"
          ELSE /\ files' = files
               /\ apc' = "failed"
    /\ UNCHANGED <<server, pathIdx, verbIdx, attempts, discoveredEndpoints, baseUrl,
                   clock, resolveVars, uiVars>>
    /\ UNCHANGED <<clientVars, emitVars, stubVars, restVars, helperVars>>

\* ApiClient.isEndpointAvailable(endpoint, method): the request is made with
\* validateStatus: () => true; a rejected request gives false
isEndpointAvailable(srv, endpoint, method) ==
    LET response == srv[<<method, endpoint>>] IN
    IF ~response.received THEN FALSE ELSE response.status < 500

\* the (endpoint, method) arguments the helper is called with
AvailabilityInputs == {r \in Routes : r[2] \in {"/health", "/auth/login"}}

\* the API tests call the helper on a route of the API once discovery is done
\* (one call is followed: a later call overwrites nothing the first depends on)
Client_IsEndpointAvailable ==
    /\ apc = "done"
    /\ available = <<>>
    /\ \E r \in AvailabilityInputs :
          available' = << [method |-> r[1], endpoint |-> r[2],
                           result |-> isEndpointAvailable(server, r[2], r[1])] >>
    /\ UNCHANGED <<apiVars, uiVars, resolveVars, envVars, emitVars, stubVars, restVars, helperVars>>

\* no EndpointDiscovery run in this specification
ApiIdle ==
    /\ server = [r \in Routes |-> NoResponse]
    /\ apc = "idle"
    /\ pathIdx = 1
    /\ verbIdx = 1
    /\ attempts = <<>>
    /\ discoveredEndpoints = <<>>
    /\ baseUrl = baseUrlOf("")
    /\ available = <<>>

HelpersIdle ==
    /\ call = <<>>
    /\ authToken = ""
    /\ sent = <<>>
    /\ jira = <<>>

HistoriesIdle ==
    /\ files = NoFiles
    /\ clock = 0
    /\ emissions = <<>>
    /\ previous = <<>>
    /\ inflight = <<>>
    /\ flows = <<>>

EnvIdle ==
    /\ HistoriesIdle
    /\ HelpersIdle

-----------------------------------------------------------------------------
(* SelectorDiscovery: one awaited findBestSelector call, and the page objects *)

RECURSIVE findBestSelector_from(_, _, _, _)
\* the for-of loop of findBestSelector from position i to its return
findBestSelector_from(sels, name, i, d) ==
    IF i > Len(sels) THEN ReturnedNull
    ELSE LET next == findBestSelector_iter(sels, name, i, d) IN
         IF next.result.status = "pending"
         THEN findBestSelector_from(sels, name, next.idx, d)
         ELSE next.result

\* await this.findBestSelector(selectors, elementName)
findBestSelector(sels, name, d) == findBestSelector_from(sels, name, 1, d)

\* faulty variant: an unmatched logical name raises
discoverElement_raise(found, entry, d) ==
    LET r == findBestSelector(entry.selectors, entry.elementName, d) IN
    IF r.found # <<>>
    THEN [selectors |-> Append(found, r.found[1]), threw |-> FALSE]
    ELSE [selectors |-> found, threw |-> TRUE]

\* const element = await this.findBestSelector(...);
\* if (element) loginSelectors.push(element);
\* Gives the new local array and whether the statement threw.
discoverElement(found, entry, d) ==
    LET r == findBestSelector(entry.selectors, entry.elementName, d) IN
    IF r.status = "thrown"
    THEN [selectors |-> found, threw |-> TRUE]
    ELSE IF r.found # <<>>
         THEN [selectors |-> Append(found, r.found[1]), threw |-> FALSE]
         ELSE [selectors |-> found, threw |-> FALSE]

\* the object pushed on discoveredPages
PageObjectData(pageName, url, sels) ==
    [pageName |-> pageName, url |-> url, selectors |-> sels]

\* the template literal of generateSelectorMethod, as pieces
generateSelectorMethod(selector) ==
    << "\n  get ", Str(ToLowerCase(selector.name)),
       "(): Locator {\n    // Primary selector: ", selector.selector,
       "\n    // Fallbacks: " >>
    \o JoinPieces(selector.fallbackSelectors, ", ")
    \o << "\n    \n    try {\n      return this.page.locator('", selector.selector,
          "');\n    } catch {\n      // Try fallback selectors\n      " >>
    \o JoinTexts([i \in 1..Len(selector.fallbackSelectors) |->
                     << "try { return this.page.locator('",
                        selector.fallbackSelectors[i], "'); } catch {}" >>],
                 "\n      ")
    \o << "\n      \n      throw new Error('Could not find ", Str(selector.name),
          " element');\n    }\n  }" >>

\* generateActionMethods: the two fixed texts; every use of an accessor is
\* the piece "this." followed by the piece naming the accessor
generateActionMethods(pageData) ==
    IF pageData.pageName = "LoginPage"
    THEN << "\n  async login(email: string, password: string): Promise<void> {\n    await ",
            "this.", "emailinput", ".fill(email);\n    await ",
            "this.", "passwordinput", ".fill(password);\n    await ",
            "this.", "loginbutton",
            ".click();\n  }\n\n  async getErrorMessage(): Promise<string | null> {\n    try {\n      return await ",
            "this.", "errormessage",
            ".textContent();\n    } catch {\n      return null;\n    }\n  }" >>
    ELSE IF pageData.pageName = "DashboardPage"
    THEN << "\n  async waitForDashboard(): Promise<void> {\n    await ",
            "this.", "dashboardcontainer",
            ".waitFor({ state: 'visible' });\n  }\n\n  async getUserName(): Promise<string | null> {\n    try {\n      return await ",
            "this.", "userprofile",
            ".textContent();\n    } catch {\n      return null;\n    }\n  }" >>
    ELSE <<>>

\* faulty variant: the generated header carries the generation time
generatePageObjectClass_stamped(pageData) ==
    << "\n// generated at ", ToString(clock),
       "\nimport { Page, Locator } from '@playwright/test';\n\nexport class ",
       pageData.pageName >>

\* the template literal of generatePageObjectClass, as pieces
generatePageObjectClass(pageData) ==
    << "\nimport { Page, Locator } from '@playwright/test';\n\nexport class ",
       pageData.pageName,
       " {\n  private page: Page;\n\n  constructor(page: Page) {\n    this.page = page;\n  }\n\n  // Navigation\n  async navigate(): Promise<void> {\n    await this.page.goto('",
       pageData.url,
       "');\n  }\n\n  // Selectors with fallbacks\n" >>
    \o JoinTexts([i \in 1..Len(pageData.selectors) |->
                     generateSelectorMethod(pageData.selectors[i])], "\n")
    \o << "\n\n  // Actions\n" >>
    \o generateActionMethods(pageData)
    \o << "\n}" >>

\* const filename = 'src/pages/' + pageData.pageName + '.ts'
pageObjectFilename(pageData) == "src/pages/" \o pageData.pageName \o ".ts"

-----------------------------------------------------------------------------
(* SelectorDiscovery.run *)

\* every selector of the discovery catalog
CatalogSelectors == UNION {Range(Catalog[i].selectors) : i \in 1..Len(Catalog)}

\* the pages a discovery run can be pointed at: at most n of the catalog's
\* selectors meet something
UiDoms(n) ==
    UNION { { [s \in CatalogSelectors |-> IF s \in P THEN f[s] ELSE Absent] :
                f \in [P -> NonAbsent] } :
            P \in SubsetsUpTo(CatalogSelectors, n) }

\* initialize: chromium.launch, browser.newPage; it runs before the try block
Ui_Initialize ==
    /\ upc = "initialize"
    /\ \E launchOk \in BOOLEAN :
          IF launchOk
          THEN browserOpen' = TRUE /\ upc' = "goto" /\ uiError' = uiError
          ELSE browserOpen' = FALSE /\ upc' = "failed" /\ uiError' = "launch"
    /\ UNCHANGED <<pageUrl, catIdx, localSelectors, discoveredPages, genIdx,
                   dom, resolver, selectors, elementName, idx, probed, result, elapsed,
                   apiVars, envVars>>
    /\ UNCHANGED <<clientVars, emitVars, stubVars, restVars, helperVars>>

\* discoverLoginPage: await this.page.goto(baseUrl + '/login')
Ui_Goto ==
    /\ upc = "goto"
    /\ \E gotoOk \in BOOLEAN :
          IF gotoOk
          THEN /\ pageUrl' = "/login"
               /\ upc' = "discoverLoginPage"
               /\ uiError' = uiError
          ELSE /\ pageUrl' = pageUrl
               /\ upc' = "finally"
               /\ uiError' = "goto"
    /\ catIdx' = 1
    /\ localSelectors' = <<>>
    /\ UNCHANGED <<browserOpen, discoveredPages, genIdx,
                   dom, resolver, selectors, elementName, idx, probed, result, elapsed,
                   apiVars, envVars>>
    /\ UNCHANGED <<clientVars, emitVars, stubVars, restVars, helperVars>>

\* one findBestSelector call of a discover method with its push on the local
\* array; after the last call the page is pushed on discoveredPages
DiscoverStep(catalog, pageName, url, nextPc) ==
    LET out == discoverElement(localSelectors, catalog[catIdx], dom) IN
    IF out.threw
    THEN /\ upc' = "finally"
         /\ uiError' = "findBestSelector"
         /\ UNCHANGED <<catIdx, localSelectors, discoveredPages, genIdx>>
    ELSE /\ uiError' = uiError
         /\ IF catIdx < Len(catalog)
            THEN /\ catIdx' = catIdx + 1
                 /\ localSelectors' = out.selectors
                 /\ UNCHANGED <<upc, discoveredPages, genIdx>>
            ELSE /\ discoveredPages' =
                        Append(discoveredPages, PageObjectData(pageName, url, out.selectors))
                 /\ upc' = nextPc
                 /\ catIdx' = 1
                 /\ localSelectors' = <<>>
                 /\ genIdx' = 1

Ui_DiscoverLoginPage ==
    /\ upc = "discoverLoginPage"
    /\ DiscoverStep(LoginCatalog, "LoginPage", "/login", "discoverDashboardPage")
    /\ UNCHANGED <<browserOpen, pageUrl,
                   dom, resolver, selectors, elementName, idx, probed, result, elapsed,
                   apiVars, envVars>>
    /\ UNCHANGED <<clientVars, emitVars, stubVars, restVars, helperVars>>

\* discoverDashboardPage issues no goto: its calls probe the page the browser
\* is at
Ui_DiscoverDashboardPage ==
    /\ upc = "discoverDashboardPage"
    /\ DiscoverStep(DashboardCatalog, "DashboardPage", "/dashboard", "generatePageObjects")
    /\ UNCHANGED <<browserOpen, pageUrl,
                   dom, resolver, selectors, elementName, idx, probed, result, elapsed,
                   apiVars, envVars>>
    /\ UNCHANGED <<clientVars, emitVars, stubVars, restVars, helperVars>>

\* faulty variant: a rejected write is noted and the loop goes on
Ui_GeneratePageObject_swallow ==
    /\ upc = "generatePageObjects"
    /\ genIdx <= Len(discoveredPages)
    /\ LET pageData == discoveredPages[genIdx] IN
       \E writeOk \in BOOLEAN :
          /\ files' = IF writeOk
                      THEN writeFile(files, pageObjectFilename(pageData),
                                     TextFile(generatePageObjectClass(pageData)))
                      ELSE files
          /\ uiError' = IF writeOk THEN uiError ELSE "writeFile"
    /\ genIdx' = genIdx + 1
    /\ upc' = IF genIdx = Len(discoveredPages) THEN "saveDiscoveredSelectors" ELSE upc
    /\ UNCHANGED <<browserOpen, pageUrl, catIdx, localSelectors, discoveredPages, clock,
                   dom, resolver, selectors, elementName, idx, probed, result, elapsed,
                   apiVars>>
    /\ UNCHANGED <<clientVars, emitVars, stubVars, restVars, helperVars>>

\* one iteration of generatePageObjects: generate the class, await writeFile
Ui_GeneratePageObject ==
    /\ upc = "generatePageObjects"
    /\ genIdx <= Len(discoveredPages)
    /\ LET pageData == discoveredPages[genIdx] IN
       \E writeOk \in BOOLEAN :
          IF writeOk
          THEN /\ files' = writeFile(files, pageObjectFilename(pageData),
                               TextFile(generatePageObjectClass(pageData)))
               /\ genIdx' = genIdx + 1
               /\ upc' = IF genIdx = Len(discoveredPages)
                         THEN "saveDiscoveredSelectors" ELSE upc
               /\ uiError' = uiError
          ELSE /\ files' = files
               /\ genIdx' = genIdx
               /\ upc' = "finally"
               /\ uiError' = "writeFile"
    /\ UNCHANGED <<browserOpen, pageUrl, catIdx, localSelectors, discoveredPages, clock,
                   dom, resolver, selectors, elementName, idx, probed, result, elapsed, apiVars>>
    /\ UNCHANGED <<clientVars, emitVars, stubVars, restVars, helperVars>>

\* the output object of saveDiscoveredSelectors
discoveredSelectorsOutput(now, pages) == [discoveredAt |-> now, pages |-> pages]

Ui_SaveDiscoveredSelectors ==
    /\ upc = "saveDiscoveredSelectors"
    /\ \E writeOk \in BOOLEAN :
          IF writeOk
          THEN /\ files' = writeFile(files, "discovered-selectors.json",
                               JsonFile(discoveredSelectorsOutput(clock, discoveredPages)))
               /\ uiError' = uiError
          ELSE /\ files' = files
               /\ uiError' = "writeFile"
    /\ upc' = "finally"
    /\ UNCHANGED <<browserOpen, pageUrl, catIdx, localSelectors, discoveredPages, genIdx,
                   clock, dom, resolver, selectors, elementName, idx, probed, result, elapsed,
                   apiVars>>
    /\ UNCHANGED <<clientVars, emitVars, stubVars, restVars, helperVars>>

\* finally { await this.browser.close(); }  then run() resolves, or rejects
\* with the pending exception
\* faulty variant: browser.close() is the last statement of the try block
\* rather than a finally clause
Ui_Close_endOfTry ==
    /\ upc = "finally"
    /\ browserOpen' = (uiError # "")
    /\ upc' = IF uiError = "" THEN "done" ELSE "failed"
    /\ UNCHANGED <<pageUrl, catIdx, localSelectors, discoveredPages, genIdx, uiError,
                   dom, resolver, selectors, elementName, idx, probed, result, elapsed,
                   apiVars, envVars>>
    /\ UNCHANGED <<clientVars, emitVars, stubVars, restVars, helperVars>>

Ui_Close ==
    /\ upc = "finally"
    /\ browserOpen' = FALSE
    /\ upc' = IF uiError = "" THEN "done" ELSE "failed"
    /\ UNCHANGED <<pageUrl, catIdx, localSelectors, discoveredPages, genIdx, uiError,
                   dom, resolver, selectors, elementName, idx, probed, result, elapsed,
                   apiVars, envVars>>
    /\ UNCHANGED <<clientVars, emitVars, stubVars, restVars, helperVars>>

\* no SelectorDiscovery run in this specification
UiIdle ==
    /\ upc = "idle"
    /\ browserOpen = FALSE
    /\ pageUrl = ""
    /\ catIdx = 1
    /\ localSelectors = <<>>
    /\ discoveredPages = <<>>
    /\ genIdx = 1
    /\ uiError = ""

-----------------------------------------------------------------------------
(* Specification of the resolvers: one candidate list against one live page *)

vars == <<resolveVars, apiVars, uiVars, clientVars, emitVars, stubVars, restVars, helperVars, envVars>>

ResolveIdle ==
    /\ resolver = "none"
    /\ elapsed = 0
    /\ stub = <<>>
    /\ idx = 1
    /\ probed = <<>>
    /\ result = Pending

Init ==
    /\ \/ selectors \in AuthoredLists /\ elementName = <<>>
       \/ \E c \in Range(Catalog) :
             selectors = c.selectors /\ elementName = c.elementName
    /\ dom \in Doms(selectors)
    /\ ResolveIdle
    /\ ApiIdle
    /\ UiIdle
    /\ EnvIdle

Next ==
    \/ FEWF_Call
    \/ FEWF_Iterate
    \/ FBS_Call
    \/ FBS_Iterate
    \/ Resolved

Spec == Init /\ [][Next]_vars

-----------------------------------------------------------------------------
(* Specification of one EndpointDiscovery run against one live API *)

\* no resolution in this specification
NoPage ==
    /\ dom = <<>>
    /\ selectors = <<>>
    /\ elementName = <<>>
    /\ ResolveIdle

\* new EndpointDiscovery().run()
InitApi ==
    /\ server \in Servers
    /\ apc = "discoverFromNetworkRequests"
    /\ pathIdx = 1
    /\ verbIdx = 1
    /\ attempts = <<>>
    /\ discoveredEndpoints = <<>>
    /\ baseUrl = baseUrlOf("")
    /\ available = <<>>
    /\ EnvIdle
    /\ NoPage
    /\ UiIdle

NextApi ==
    \/ Api_TestEndpoint
    \/ Api_GenerateApiClient
    \/ Api_SaveDiscoveredEndpoints
    \/ Client_IsEndpointAvailable

SpecApi == InitApi /\ [][NextApi]_vars

-----------------------------------------------------------------------------
(* Specification of one SelectorDiscovery run against one live page *)

\* new SelectorDiscovery().run()
InitUi ==
    /\ dom \in UiDoms(MaxPresentUi)
    /\ upc = "initialize"
    /\ browserOpen = FALSE
    /\ pageUrl = ""
    /\ catIdx = 1
    /\ localSelectors = <<>>
    /\ discoveredPages = <<>>
    /\ genIdx = 1
    /\ uiError = ""
    /\ selectors = <<>>
    /\ elementName = <<>>
    /\ ResolveIdle
    /\ ApiIdle
    /\ EnvIdle

NextUi ==
    \/ Ui_Initialize
    \/ Ui_Goto
    \/ Ui_DiscoverLoginPage
    \/ Ui_DiscoverDashboardPage
    \/ Ui_GeneratePageObject
    \/ Ui_SaveDiscoveredSelectors
    \/ Ui_Close

SpecUi == InitUi /\ [][NextUi]_vars

-----------------------------------------------------------------------------
(* Properties of the resolvers *)

\* what "the probe matches candidate s" means for the running resolver: at
\* runtime the element is visible within the wait, in discovery it exists
Matches(s) ==
    IF resolver = "findElementWithFallbacks"
    THEN dom[s].kind = "element" /\ dom[s].isVisible
    ELSE dom[s].kind = "element"

MatchingPositions == {i \in 1..Len(selectors) : Matches(selectors[i])}

Finished == resolver # "none" /\ result.status # "pending"

\* C1: when the probe matches exactly the i-th entry of the candidate list, a
\* resolution (findElementWithFallbacks or findBestSelector) never gives up
\* before reaching entry i and ends by returning entry i as the matched
\* candidate, whatever the non-matching entries around it are.
C1_ExactlyOneMatchIsReturned ==
    \A i \in 1..Len(selectors) :
        (resolver # "none" /\ MatchingPositions = {i}) =>
            IF result.status = "pending"
            THEN idx <= i
            ELSE /\ result.status = "returned"
                 /\ result.selector = selectors[i]
                 /\ resolver = "findBestSelector" =>
                        /\ Len(result.found) = 1
                        /\ result.found[1].selector = selectors[i]

\* a resolution returned the only matching entry, which is not the first one,
\* after a first entry that is on the page but does not match
C1_Witness ==
    \E i \in 2..Len(selectors) :
        /\ Finished
        /\ MatchingPositions = {i}
        /\ dom[selectors[1]].kind # "absent"
        /\ result.selector = selectors[i]

\* C2: first-match-wins: when several entries would match, a finished
\* resolution returns the one declared first; visibility is no tie-break
\* (in discovery a hidden earlier entry beats a visible later one).
C2_FirstMatchWins ==
    (Finished /\ MatchingPositions # {}) =>
        /\ result.status = "returned"
        /\ \E i \in MatchingPositions :
              /\ \A j \in MatchingPositions : i <= j
              /\ result.selector = selectors[i]

\* discovery returned a hidden entry i although a later entry j is visible
C2_Witness ==
    \E i, j \in MatchingPositions :
        /\ i < j
        /\ Finished
        /\ resolver = "findBestSelector"
        /\ ~dom[selectors[i]].isVisible
        /\ dom[selectors[j]].isVisible
        /\ result.selector = selectors[i]

\* the selectors an error message lists: the pieces between the separators
ListedInMessage(message) == [i \in 1..(Len(message) \div 2) |-> message[2 * i]]

\* C3: when no entry of the list matches, findElementWithFallbacks ends by
\* throwing an error whose message lists every entry of the list, in order:
\* never a partial list, never a returned (null) value.
C3_ExhaustionListsAllCandidates ==
    (Finished /\ resolver = "findElementWithFallbacks" /\ MatchingPositions = {}) =>
        /\ result.status = "thrown"
        /\ Len(result.message) = 2 * Len(selectors)
        /\ ListedInMessage(result.message) = selectors
        /\ \A i \in 1..(Len(selectors) - 1) : result.message[2 * i + 1] = ", "

\* findElementWithFallbacks threw on a page where entries of the list exist
\* but none is visible
C3_Witness ==
    /\ Finished
    /\ resolver = "findElementWithFallbacks"
    /\ result.status = "thrown"
    /\ \E s \in Range(selectors) : dom[s].kind # "absent"

\* C4: a failing probe of one candidate never escapes the resolver: the next
\* candidate is tried (the candidates probed so far are always the prefix
\* of the list before the loop position), and a resolution throws only after
\* the whole list was probed without a match; findBestSelector never throws.
C4_ProbeFailureNeverEscapes ==
    /\ (resolver # "none" /\ result.status = "pending") =>
           /\ idx <= Len(selectors)
           /\ probed = SubSeq(selectors, 1, idx - 1)
    /\ (resolver # "none" /\ result.status = "thrown") =>
           /\ resolver = "findElementWithFallbacks"
           /\ probed = selectors
           /\ MatchingPositions = {}
           /\ result = ThrownError(selectors)
    /\ (Finished /\ result.status = "returned" /\ result.selector = "") =>
           /\ probed = selectors
           /\ MatchingPositions = {}

\* a probe failed with an error (malformed selector, element detached while
\* its metadata is read) and the resolution went on to a later candidate
C4_Witness ==
    \E i \in 1..Len(probed) :
        /\ i < Len(probed)
        /\ dom[probed[i]].kind \in {"invalid", "detached"}
        /\ resolver # "none"

-----------------------------------------------------------------------------
(* Properties of EndpointDiscovery *)

\* every (path template, verb) combination, in the order of the loops
AllAttempts ==
    [k \in 1..(Len(commonPaths) * Len(Verbs)) |->
        << Verbs[((k - 1) % Len(Verbs)) + 1],
           commonPaths[((k - 1) \div Len(Verbs)) + 1] >>]

ApiDiscoveryOver == apc \in {"generateApiClient", "saveDiscoveredEndpoints", "done", "failed"}

\* C6: in one API discovery run every combination of catalog path and verb
\* (GET, POST) is attempted exactly once: the requests issued so far are
\* always a prefix of the full catalog traversal, no outcome of an attempt
\* ends the traversal early, and once discovery is over the requests issued
\* are the whole traversal, each route in it once.
C6_CatalogFullyTraversed ==
    /\ \A r \in Routes :
          Cardinality({k \in 1..Len(AllAttempts) : AllAttempts[k] = r}) = 1
    /\ apc # "idle" =>
           /\ Len(attempts) <= Len(AllAttempts)
           /\ attempts = SubSeq(AllAttempts, 1, Len(attempts))
    /\ apc = "discoverFromNetworkRequests" =>
           /\ Len(attempts) < Len(AllAttempts)
           /\ Len(attempts) = (pathIdx - 1) * Len(Verbs) + (verbIdx - 1)
    /\ ApiDiscoveryOver => attempts = AllAttempts

\* the traversal completed although an early attempt got no response and
\* another attempt was answered with an error status
C6_Witness ==
    /\ apc = "generateApiClient"
    /\ attempts = AllAttempts
    /\ \E j, k \in 1..(Len(attempts) - 1) :
          /\ ~server[attempts[j]].received
          /\ server[attempts[k]].received
          /\ server[attempts[k]].status >= 500

AnswerTo(endpoint) == server[<<endpoint.method, endpoint.url>>]

\* a response was received whose status is neither 5xx nor 404
RouteExists(answer) == answer.received /\ answer.status # 404 /\ answer.status < 500

\* C7 (as claimed): a route is recorded among the discovered endpoints only
\* when its probe received a response whose status is neither 5xx nor 404,
\* and only such a route is reported as available; a route whose probe got
\* no response or a 404 is absent from the record and not available.
C7_RecordedOnlyIfRouteExists ==
    /\ \A i \in 1..Len(discoveredEndpoints) :
          RouteExists(AnswerTo(discoveredEndpoints[i]))
    /\ \A i \in 1..Len(available) :
          available[i].result =>
              RouteExists(server[<<available[i].method, available[i].endpoint>>])

\* the attempts made so far that were answered, in order
RECURSIVE Answered(_)
Answered(as) ==
    IF as = <<>> THEN <<>>
    ELSE IF server[as[Len(as)]].received
         THEN Append(Answered(SubSeq(as, 1, Len(as) - 1)), as[Len(as)])
         ELSE Answered(SubSeq(as, 1, Len(as) - 1))

\* C8 (as claimed): a recorded attempt has authRequired = true exactly when
\* it was answered with 401 or 403.
C8_AuthRequiredIff401Or403 ==
    \A i \in 1..Len(discoveredEndpoints) :
        discoveredEndpoints[i].authRequired
            <=> (AnswerTo(discoveredEndpoints[i]).status \in {401, 403})

\* C8 (amended): every answered attempt is recorded, and it is recorded with
\* authRequired = true exactly when it was answered with 401; every other
\* status, 403 included, gives authRequired = false.
C8_AuthRequiredIff401 ==
    /\ Len(discoveredEndpoints) = Len(Answered(attempts))
    /\ \A i \in 1..Len(discoveredEndpoints) :
          /\ <<discoveredEndpoints[i].method, discoveredEndpoints[i].url>>
                 = Answered(attempts)[i]
          /\ discoveredEndpoints[i].authRequired
                 <=> (AnswerTo(discoveredEndpoints[i]).status = 401)

\* an attempt answered with 403 was recorded, with authRequired = false
C8_Witness ==
    \E i \in 1..Len(discoveredEndpoints) :
        /\ AnswerTo(discoveredEndpoints[i]).status = 403
        /\ ~discoveredEndpoints[i].authRequired

-----------------------------------------------------------------------------
(* Properties of SelectorDiscovery *)

CatalogOf(pageName) == IF pageName = "LoginPage" THEN LoginCatalog ELSE DashboardCatalog

\* the name findBestSelector records for a catalog entry
RecordedName(entry) == RemoveWhitespace(entry.elementName)

\* the catalog entries of which some candidate exists on the probed page
MatchedEntries(catalog) ==
    {c \in 1..Len(catalog) :
        \E s \in Range(catalog[c].selectors) : dom[s].kind = "element"}

DefinedAccessors(text) ==
    {text[i + 1] : i \in {j \in 1..(Len(text) - 1) : text[j] = "\n  get "}}

\* the accessors the action methods of a generated class use
ReferencedAccessors(text) ==
    {text[i + 1] : i \in {j \in 1..(Len(text) - 1) : text[j] = "this."}}

PageObjectNames == {"LoginPage", "DashboardPage"}

\* C10 (as claimed): every generated page-object class defines an accessor
\* for every logical name of its catalog, matched or not, and so defines
\* every accessor its action methods (login, getErrorMessage,
\* waitForDashboard, getUserName) refer to.
C10_EveryReferencedAccessorDefined ==
    \A pageName \in PageObjectNames :
        LET file == files["src/pages/" \o pageName \o ".ts"] IN
        file.exists =>
            /\ \A c \in 1..Len(CatalogOf(pageName)) :
                  Str(ToLowerCase(RecordedName(CatalogOf(pageName)[c])))
                      \in DefinedAccessors(file.text)
            /\ ReferencedAccessors(file.text) \subseteq DefinedAccessors(file.text)

-----------------------------------------------------------------------------
(* Specification of repeated stub generation from one discovery record *)

\* the discover methods as one fold: every findBestSelector call with its push
RECURSIVE discoverPage_from(_, _, _, _)
discoverPage_from(found, catalog, i, d) ==
    IF i > Len(catalog) THEN found
    ELSE discoverPage_from(discoverElement(found, catalog[i], d).selectors,
                           catalog, i + 1, d)

\* discoverLoginPage and discoverDashboardPage on page d
discoverPages(d) ==
    << PageObjectData("LoginPage", "/login",
                      discoverPage_from(<<>>, LoginCatalog, 1, d)),
       PageObjectData("DashboardPage", "/dashboard",
                      discoverPage_from(<<>>, DashboardCatalog, 1, d)) >>

\* discoverFromNetworkRequests as one fold over its testEndpoint calls
RECURSIVE discoverFromNetworkRequests_from(_, _, _)
discoverFromNetworkRequests_from(endpoints, k, srv) ==
    IF k > Len(AllAttempts) THEN endpoints
    ELSE discoverFromNetworkRequests_from(
             testEndpoint(srv, AllAttempts[k][1], AllAttempts[k][2], endpoints).endpoints,
             k + 1, srv)

\* the page on which the first candidate of the first n logical names of the
\* catalog is a visible element, and nothing else exists
PageWithFirst(n) ==
    [s \in CatalogSelectors |->
        IF \E c \in 1..n : Catalog[c].selectors[1] = s THEN Visible ELSE Absent]

\* the API whose every route gives the same answer
UniformServer(answer) == [r \in Routes |-> answer]

\* the application goes away: no element on the page, no answer from the API
TargetDown ==
    /\ dom = PageWithFirst(0)
    /\ server = UniformServer(NoResponse)

\* a finished discovery (of a page, or of an API) left its record behind
InitEmit ==
    /\ \/ /\ \E n \in 0..Len(Catalog) : dom = PageWithFirst(n)
          /\ server = UniformServer(NoResponse)
       \/ /\ dom = PageWithFirst(0)
          /\ \E answer \in Answers : server = UniformServer(answer)
    /\ discoveredPages = discoverPages(dom)
    /\ discoveredEndpoints = discoverFromNetworkRequests_from(<<>>, 1, server)
    /\ baseUrl = baseUrlOf("")
    /\ apc = "idle"
    /\ pathIdx = 1
    /\ verbIdx = 1
    /\ attempts = <<>>
    /\ available = <<>>
    /\ upc = "idle"
    /\ browserOpen = FALSE
    /\ pageUrl = ""
    /\ catIdx = 1
    /\ localSelectors = <<>>
    /\ genIdx = 1
    /\ uiError = ""
    /\ selectors = <<>>
    /\ elementName = <<>>
    /\ ResolveIdle
    /\ EnvIdle

Emission(kind, record, text) ==
    [kind |-> kind, record |-> record, text |-> text,
     at |-> clock, page |-> dom, api |-> server]

\* generatePageObjects' loop body on a page of the record
Emit_GeneratePageObjectClass ==
    /\ Len(emissions) < MaxEmissions
    /\ \E i \in 1..Len(discoveredPages) :
          LET pageData  == discoveredPages[i]
              classCode == generatePageObjectClass(pageData)
          IN  /\ files' = writeFile(files, pageObjectFilename(pageData),
                                    TextFile(classCode))
              /\ emissions' = Append(emissions,
                                     Emission("pageObject", pageData, classCode))
    /\ UNCHANGED <<resolveVars, apiVars, uiVars, clientVars, stubVars, restVars, clock, helperVars>>

\* generateApiClient on the endpoints of the record
Emit_GenerateApiClient ==
    /\ Len(emissions) < MaxEmissions
    /\ LET clientCode == apiClientCode(baseUrl, discoveredEndpoints) IN
       /\ files' = writeFile(files, "src/api/generated-client.ts", TextFile(clientCode))
       /\ emissions' = Append(emissions,
                              Emission("apiClient",
                                       [baseUrl |-> baseUrl,
                                        endpoints |-> discoveredEndpoints],
                                       clientCode))
    /\ UNCHANGED <<resolveVars, apiVars, uiVars, clientVars, stubVars, restVars, clock, helperVars>>

\* time passes between two generations
Emit_Tick ==
    /\ clock < MaxClock
    /\ clock' = clock + 1
    /\ UNCHANGED <<resolveVars, apiVars, uiVars, clientVars, emitVars, stubVars, restVars, files, helperVars>>

\* the live application changes between two generations
Emit_TargetChanges ==
    /\ ~TargetDown
    /\ dom' = PageWithFirst(0)
    /\ server' = UniformServer(NoResponse)
    /\ UNCHANGED <<resolver, selectors, elementName, idx, probed, result, elapsed,
                   apc, pathIdx, verbIdx, attempts, discoveredEndpoints, baseUrl,
                   uiVars, clientVars, emitVars, stubVars, restVars, envVars, helperVars>>

NextEmit ==
    \/ Emit_GeneratePageObjectClass
    \/ Emit_GenerateApiClient
    \/ Emit_Tick
    \/ Emit_TargetChanges

SpecEmit == InitEmit /\ [][NextEmit]_vars

-----------------------------------------------------------------------------
(* Properties of stub generation *)

\* the characters of a generated text: its pieces, concatenated
RECURSIVE Bytes(_)
Bytes(text) ==
    IF text = <<>> THEN ""
    ELSE IF Len(text) = 1 THEN text[1]
    ELSE LET half == Len(text) \div 2 IN
         Bytes(SubSeq(text, 1, half)) \o Bytes(SubSeq(text, half + 1, Len(text)))

-----------------------------------------------------------------------------
(* Specification of a generated accessor in use on a live page *)

\* page.locator(selector): builds a lazy Locator; the page is not consulted
\* and nothing is thrown
locator(selector, d) == ReturnedLocator(selector)

\* the body generateSelectorMethod emits for a DiscoveredSelector, run on
\* page d:  try { return this.page.locator('<selector>'); } catch { ... }
\* the catch block (fallbacks, then the throw) runs only if locator() throws
accessor(selector, d) ==
    LET primary == locator(selector.selector, d) IN
    IF primary.status = "returned"
    THEN primary
    ELSE [status |-> "thrown", selector |-> "",
          message |-> <<"Could not find ", Str(selector.name), " element">>,
          found |-> <<>>]

\* the locator's action (fill, click, textContent) timed out
ActionTimeout ==
    [status |-> "thrown", selector |-> "", message |-> <<"Timeout exceeded">>,
     found |-> <<>>]

\* the page on which discovery met exactly the k-th candidate of list L
PageWithOnly(L, k) == [s \in Range(L) |-> IF s = L[k] THEN Visible ELSE Absent]

\* an accessor was generated from what findBestSelector returned on the page
\* of discovery time; the page under test is another page
InitStub ==
    /\ \E c \in Range(Catalog) :
          /\ selectors = c.selectors
          /\ elementName = c.elementName
          /\ \E k \in 1..Len(c.selectors) :
                stub = findBestSelector(c.selectors, c.elementName,
                                        PageWithOnly(c.selectors, k)).found[1]
    /\ dom \in Doms(selectors)
    /\ resolver = "none"
    /\ idx = 1
    /\ probed = <<>>
    /\ result = Pending
    /\ elapsed = 0
    /\ ApiIdle
    /\ UiIdle
    /\ EnvIdle

\* an action method of the generated class reads this.<name>
Stub_Get ==
    /\ resolver = "none"
    /\ stub # <<>>
    /\ resolver' = "accessor"
    /\ result' = accessor(stub, dom)
    /\ UNCHANGED <<dom, selectors, elementName, idx, probed, elapsed, stub>>
    /\ UNCHANGED <<apiVars, uiVars, envVars, clientVars, emitVars, restVars, helperVars>>

\* ... and awaits .fill / .click / .textContent on what it got: the action
\* waits for the locator's element and times out when there is none
Stub_Act ==
    /\ resolver = "accessor"
    /\ result.status = "returned"
    /\ resolver' = "action"
    /\ result' = IF waitFor(dom[result.selector]) THEN result ELSE ActionTimeout
    /\ UNCHANGED <<dom, selectors, elementName, idx, probed, elapsed, stub>>
    /\ UNCHANGED <<apiVars, uiVars, envVars, clientVars, emitVars, restVars, helperVars>>

NextStub ==
    \/ Stub_Get
    \/ Stub_Act

SpecStub == InitStub /\ [][NextStub]_vars

-----------------------------------------------------------------------------
(* Properties of the generated accessor *)

\* the candidates of the accessor: the matched one, then the others in their
\* recorded order
StubCandidates == <<stub.selector>> \o stub.fallbackSelectors

StubMatching == {i \in 1..Len(StubCandidates) : waitFor(dom[StubCandidates[i]])}

\* C11 (as claimed): the generated accessor gives the matched candidate when
\* it matches an element of the page, otherwise the first of the remaining
\* candidates (in recorded order) that does, and fails only when no candidate
\* matches.
C11_AccessorFallsBack ==
    (resolver = "accessor" /\ stub # <<>>) =>
        IF StubMatching = {}
        THEN result.status = "thrown"
        ELSE /\ result.status = "returned"
             /\ \E i \in StubMatching :
                   /\ \A j \in StubMatching : i <= j
                   /\ result.selector = StubCandidates[i]

-----------------------------------------------------------------------------
(* Properties of the audit record of SelectorDiscovery *)

\* the pages of the audit record: those in memory, and those of the saved
\* discovered-selectors.json
AuditedPages ==
    Range(discoveredPages)
    \cup (IF files["discovered-selectors.json"].exists
          THEN Range(files["discovered-selectors.json"].json[1].pages)
          ELSE {})

\* entry e records the k-th candidate of list L and, as fallbacks, L without it
PreservesList(e, L) ==
    \E k \in 1..Len(L) :
        /\ e.selector = L[k]
        /\ e.fallbackSelectors = SubSeq(L, 1, k - 1) \o SubSeq(L, k + 1, Len(L))
        /\ \A i \in 1..Len(e.fallbackSelectors) : e.fallbackSelectors[i] # e.selector

\* C12: every entry of the audit record (in memory and in the saved file)
\* keeps the original candidate list of its logical name: its selector is an
\* entry of that list, its fallbackSelectors are the list without that entry
\* in the original order, and the selector is not among its own fallbacks.
C12_AuditKeepsCandidateList ==
    \A page \in AuditedPages :
        \A e \in 1..Len(page.selectors) :
            \E c \in 1..Len(CatalogOf(page.pageName)) :
                /\ RecordedName(CatalogOf(page.pageName)[c]) = page.selectors[e].name
                /\ PreservesList(page.selectors[e], CatalogOf(page.pageName)[c].selectors)

\* the saved file holds an entry matched by a candidate that is neither the
\* first nor the last of its list
C12_Witness ==
    /\ files["discovered-selectors.json"].exists
    /\ \E page \in Range(files["discovered-selectors.json"].json[1].pages) :
          \E e \in 1..Len(page.selectors) :
              \E c \in 1..Len(CatalogOf(page.pageName)) :
                 LET L == CatalogOf(page.pageName)[c].selectors IN
                 \E k \in 2..(Len(L) - 1) :
                    /\ page.selectors[e].selector = L[k]
                    /\ Len(page.selectors[e].fallbackSelectors) = Len(L) - 1

-----------------------------------------------------------------------------
(* Termination of a resolution *)

\* every await of the loops settles: waitFor has its timeout, page.$ answers
SpecFair == Spec /\ WF_vars(FEWF_Iterate) /\ WF_vars(FBS_Iterate)

NeverMatching == resolver = "findElementWithFallbacks" /\ MatchingPositions = {}

\* C13: findElementWithFallbacks over n candidates none of which matches
\* makes its probes one after the other down the list, never more than n of
\* them, each waiting at most the probe timeout, and it does end: with the
\* error, after exactly n probes.
C13_ExhaustionTerminates ==
    /\ [](NeverMatching =>
            /\ Len(probed) <= Len(selectors)
            /\ probed = SubSeq(selectors, 1, Len(probed))
            /\ elapsed <= Len(probed) * ProbeTimeout
            /\ Finished => (result.status = "thrown" /\ Len(probed) = Len(selectors)))
    /\ (NeverMatching ~> (NeverMatching /\ Finished))

\* a resolution over a list of at least five candidates ended with the error
\* after waiting the full timeout on every one of them
C13_Witness ==
    /\ NeverMatching
    /\ Finished
    /\ result.status = "thrown"
    /\ Len(selectors) >= 5
    /\ Len(probed) = Len(selectors)
    /\ elapsed = Len(selectors) * ProbeTimeout

-----------------------------------------------------------------------------
(* Order of the probes of one resolution *)

\* C14: within one resolution (findElementWithFallbacks or findBestSelector)
\* the probes made so far are the first entries of the list, in list order
\* and each once; no probed entry but the last one matches, so nothing is
\* probed after a match; and the resolution ends either with the one matched
\* candidate, the last one probed, or with failure after the whole list.
C14_ProbesInOrderUntilFirstMatch ==
    resolver \in {"findElementWithFallbacks", "findBestSelector"} =>
        /\ Len(probed) <= Len(selectors)
        /\ \A k \in 1..Len(probed) : probed[k] = selectors[k]
        /\ \A k \in 1..(Len(probed) - 1) : ~Matches(probed[k])
        /\ Finished =>
              \/ /\ result.status = "returned"
                 /\ result.selector # ""
                 /\ probed # <<>>
                 /\ result.selector = probed[Len(probed)]
                 /\ Matches(result.selector)
              \/ /\ result.selector = ""
                 /\ result.found = <<>>
                 /\ probed = selectors
                 /\ MatchingPositions = {}

\* a resolution stopped at a matching entry that is followed in the list by
\* another matching entry, which was never probed
C14_Witness ==
    /\ Finished
    /\ result.status = "returned"
    /\ \E i, j \in MatchingPositions :
          /\ 1 < i
          /\ i < j
          /\ Len(probed) = i
          /\ result.selector = selectors[i]

-----------------------------------------------------------------------------
(* The error of a failed resolution *)

\* the ways an error text can name the element a getter locates
LogicalNames(getter) ==
    CASE getter = "emailInput"         -> {"emailInput", "email input", "Email Input"}
      [] getter = "passwordInput"      -> {"passwordInput", "password input", "Password Input"}
      [] getter = "loginButton"        -> {"loginButton", "login button", "Login Button"}
      [] getter = "errorMessage"       -> {"errorMessage", "error message", "Error Message"}
      [] getter = "forgotPasswordLink" -> {"forgotPasswordLink", "forgot password link",
                                           "Forgot Password Link"}
      [] getter = "dashboardContainer" -> {"dashboardContainer", "dashboard container",
                                           "Dashboard Container"}
      [] getter = "userMenu"           -> {"userMenu", "user menu", "User Menu"}
      [] getter = "navigationMenu"     -> {"navigationMenu", "navigation menu",
                                           "Navigation Menu"}
      [] getter = "logoutButton"       -> {"logoutButton", "logout button", "Logout Button"}
      [] getter = "appsSection"        -> {"appsSection", "apps section", "Apps Section"}

\* C15 (as claimed): the error a getter's failed resolution ends with names
\* the logical element the getter locates, besides listing the candidates.
C15_ErrorNamesLogicalElement ==
    (Finished /\ resolver = "findElementWithFallbacks" /\ result.status = "thrown") =>
        /\ ListedInMessage(result.message) = selectors
        /\ \A g \in Getters :
              g.selectors = selectors =>
                  \E k \in 1..Len(result.message) :
                      result.message[k] \in LogicalNames(g.name)

-----------------------------------------------------------------------------
(* The candidate lists *)

\* every list a resolver is handed: those of the getters and of the catalog
CandidateLists == AuthoredLists \cup {c.selectors : c \in Range(Catalog)}

NoDuplicates(L) == \A i, j \in 1..Len(L) : i # j => L[i] # L[j]

\* C16: every candidate list of the page objects and of the discovery
\* catalog is non-empty and without duplicate entries; the list a resolver
\* works on stays one of them, as declared, throughout the resolution, and
\* its probes follow the declared order.
C16_ListsWellFormedAndKept ==
    /\ \A L \in CandidateLists : L # <<>> /\ NoDuplicates(L)
    /\ selectors \in CandidateLists
    /\ resolver # "none" =>
          \A k \in 1..Len(probed) : k <= Len(selectors) /\ probed[k] = selectors[k]

\* a resolution over a list of DashboardPage went through the whole list
C16_Witness ==
    /\ Finished
    /\ selectors = DashboardPage_logoutButton
    /\ probed = selectors
    /\ \E s \in Range(selectors) : dom[s].kind # "absent"

-----------------------------------------------------------------------------
(* Specification of the probes in flight: LoginPage.login on a live page, *)
(* or discoverFromNetworkRequests on a live API                            *)

\* the getters login reads, in order: await (await this.emailInput).fill(..),
\* await (await this.passwordInput).fill(..), await (await this.loginButton).click()
LoginSteps == <<LoginPage_emailInput, LoginPage_passwordInput, LoginPage_loginButton>>

LoginSelectors == UNION {Range(LoginSteps[k]) : k \in 1..Len(LoginSteps)}

\* the login pages: at most MaxPresent of the selectors of the three getters
\* are visible elements
LoginDoms ==
    { [s \in LoginSelectors |-> IF s \in P THEN Visible ELSE Absent] :
        P \in SubsetsUpTo(LoginSelectors, MaxPresent) }

\* faulty variant: the call is not awaited, the caller goes on at once
awaitSettled_notAwaited(outstanding) == TRUE

\* await: the caller goes on only once the promise it awaits has settled
awaitSettled(outstanding) == outstanding = <<>>

WaitForProbe(selector) == [kind |-> "waitFor", target |-> <<selector>>]
ActionProbe(selector)  == [kind |-> "action",  target |-> <<selector>>]
HttpProbe(method, path) == [kind |-> "http",   target |-> <<method, path>>]

InitSeq ==
    /\ \/ /\ dom \in LoginDoms
          /\ server = UniformServer(NoResponse)
          /\ apc = "idle"
       \/ /\ dom = <<>>
          /\ server \in Servers
          /\ apc = "discoverFromNetworkRequests"
    /\ selectors = <<>>
    /\ elementName = <<>>
    /\ stub = <<>>
    /\ resolver = "none"
    /\ idx = 1
    /\ probed = <<>>
    /\ result = Pending
    /\ elapsed = 0
    /\ pathIdx = 1
    /\ verbIdx = 1
    /\ attempts = <<>>
    /\ discoveredEndpoints = <<>>
    /\ baseUrl = baseUrlOf("")
    /\ available = <<>>
    /\ UiIdle
    /\ EnvIdle

\* login reads its next getter, which calls findElementWithFallbacks
Seq_Get ==
    /\ dom # <<>>
    /\ resolver = "none"
    /\ awaitSettled(inflight)
    /\ Len(previous) < Len(LoginSteps)
    /\ \A k \in 1..Len(previous) : previous[k].status = "returned"
    /\ selectors' = LoginSteps[Len(previous) + 1]
    /\ resolver' = "findElementWithFallbacks"
    /\ idx' = 1
    /\ probed' = <<>>
    /\ result' = Pending
    /\ elapsed' = 0
    /\ UNCHANGED <<dom, elementName, previous, inflight, flows, helperVars>>
    /\ UNCHANGED <<apiVars, uiVars, envVars, clientVars, emitVars, stubVars>>

\* the loop body calls element.waitFor(...)
Seq_ProbeIssue ==
    /\ resolver = "findElementWithFallbacks"
    /\ result.status = "pending"
    /\ idx <= Len(selectors)
    /\ awaitSettled(inflight)
    /\ inflight' = Append(inflight, WaitForProbe(selectors[idx]))
    /\ UNCHANGED <<resolveVars, previous, flows, helperVars>>
    /\ UNCHANGED <<apiVars, uiVars, envVars, clientVars, emitVars, stubVars>>

\* ... and the awaited waitFor settles: return, or catch and continue
Seq_ProbeSettle ==
    /\ resolver = "findElementWithFallbacks"
    /\ result.status = "pending"
    /\ inflight # <<>>
    /\ Head(inflight).kind = "waitFor"
    /\ LET next == findElementWithFallbacks_iter(selectors, idx, dom) IN
         /\ idx' = next.idx
         /\ result' = next.result
    /\ probed' = Append(probed, selectors[idx])
    /\ \E t \in waitTimes(dom[selectors[idx]]) : elapsed' = elapsed + t
    /\ inflight' = Tail(inflight)
    /\ UNCHANGED <<dom, resolver, selectors, elementName, previous, flows, helperVars>>
    /\ UNCHANGED <<apiVars, uiVars, envVars, clientVars, emitVars, stubVars>>

\* login calls fill / click on the locator the getter gave
Seq_ActIssue ==
    /\ resolver = "findElementWithFallbacks"
    /\ result.status = "returned"
    /\ awaitSettled(inflight)
    /\ inflight' = Append(inflight, ActionProbe(result.selector))
    /\ UNCHANGED <<resolveVars, previous, flows, helperVars>>
    /\ UNCHANGED <<apiVars, uiVars, envVars, clientVars, emitVars, stubVars>>

\* ... and the awaited fill / click settles
Seq_ActSettle ==
    /\ resolver = "findElementWithFallbacks"
    /\ result.status = "returned"
    /\ inflight # <<>>
    /\ Head(inflight).kind = "action"
    /\ inflight' = Tail(inflight)
    /\ previous' = Append(previous, result)
    /\ resolver' = "none"
    /\ result' = Pending
    /\ UNCHANGED <<dom, selectors, elementName, idx, probed, elapsed, flows, helperVars>>
    /\ UNCHANGED <<apiVars, uiVars, envVars, clientVars, emitVars, stubVars>>

\* the getter threw: login rejects with the error
Seq_Reject ==
    /\ resolver = "findElementWithFallbacks"
    /\ result.status = "thrown"
    /\ previous' = Append(previous, result)
    /\ resolver' = "none"
    /\ result' = Pending
    /\ UNCHANGED <<dom, selectors, elementName, idx, probed, elapsed, inflight, flows, helperVars>>
    /\ UNCHANGED <<apiVars, uiVars, envVars, clientVars, emitVars, stubVars>>

\* testEndpoint calls axios(...)
Seq_HttpIssue ==
    /\ apc = "discoverFromNetworkRequests"
    /\ pathIdx <= Len(commonPaths)
    /\ awaitSettled(inflight)
    /\ inflight' = Append(inflight, HttpProbe(Verbs[verbIdx], commonPaths[pathIdx]))
    /\ UNCHANGED <<resolveVars, previous, flows, helperVars>>
    /\ UNCHANGED <<apiVars, uiVars, envVars, clientVars, emitVars, stubVars>>

\* ... and the awaited request settles: the rest of testEndpoint, then the
\* next call of the loop
Seq_HttpSettle ==
    /\ apc = "discoverFromNetworkRequests"
    /\ pathIdx <= Len(commonPaths)
    /\ inflight # <<>>
    /\ Head(inflight).kind = "http"
    /\ LET method == Verbs[verbIdx]
           path   == commonPaths[pathIdx]
           out    == testEndpoint(server, method, path, discoveredEndpoints)
           last   == pathIdx = Len(commonPaths) /\ verbIdx = Len(Verbs)
       IN  /\ attempts' = Append(attempts, <<method, path>>)
           /\ discoveredEndpoints' = out.endpoints
           /\ apc' = IF last THEN "generateApiClient" ELSE apc
           /\ IF verbIdx < Len(Verbs)
              THEN verbIdx' = verbIdx + 1 /\ pathIdx' = pathIdx
              ELSE verbIdx' = 1 /\ pathIdx' = pathIdx + 1
    /\ inflight' = Tail(inflight)
    /\ UNCHANGED <<server, baseUrl, resolveVars, previous, flows, helperVars>>
    /\ UNCHANGED <<uiVars, envVars, clientVars, emitVars, stubVars>>

NextSeq ==
    \/ Seq_Get
    \/ Seq_ProbeIssue
    \/ Seq_ProbeSettle
    \/ Seq_ActIssue
    \/ Seq_ActSettle
    \/ Seq_Reject
    \/ Seq_HttpIssue
    \/ Seq_HttpSettle

SpecSeq == InitSeq /\ [][NextSeq]_vars

-----------------------------------------------------------------------------
(* Properties of the probes in flight *)

\* C17: within a flow (login's resolutions and actions, or the endpoint
\* discovery loop) at most one probe is outstanding at any time, and it is
\* the probe of the flow's current position: every earlier probe of the flow
\* has completed before it was issued.
C17_ProbesStrictlySequential ==
    /\ Len(inflight) <= 1
    /\ \A k \in 1..Len(inflight) :
          CASE inflight[k].kind = "waitFor" ->
                   /\ idx <= Len(selectors)
                   /\ inflight[k].target = <<selectors[idx]>>
                   /\ probed = SubSeq(selectors, 1, idx - 1)
            [] inflight[k].kind = "action" ->
                   /\ result.status = "returned"
                   /\ inflight[k].target = <<result.selector>>
            [] inflight[k].kind = "http" ->
                   /\ inflight[k].target = <<Verbs[verbIdx], commonPaths[pathIdx]>>
                   /\ Len(attempts) = (pathIdx - 1) * Len(Verbs) + (verbIdx - 1)

\* login waits on a candidate of its second getter after failed probes of
\* that getter
C17_Witness ==
    /\ Len(previous) = 1
    /\ Len(probed) >= 1
    /\ Len(inflight) = 1
    /\ inflight[1].kind = "waitFor"

-----------------------------------------------------------------------------
(* Specification of repeated reads of one page-object getter while the    *)
(* page changes                                                            *)

\* the pages a getter's list meets: nothing of it on the page, or exactly
\* one of its candidates visible
GetterPages(L) ==
    {[s \in Range(L) |-> Absent]} \cup {PageWithOnly(L, k) : k \in 1..Len(L)}

InitReuse ==
    /\ selectors \in AuthoredLists
    /\ elementName = <<>>
    /\ dom \in GetterPages(selectors)
    /\ ResolveIdle
    /\ ApiIdle
    /\ UiIdle
    /\ EnvIdle

\* the caller takes what the getter gave; the outcome of the latest read is
\* remembered here (the getter itself keeps nothing)
Reuse_Resolved ==
    /\ resolver = "findElementWithFallbacks"
    /\ result.status # "pending"
    /\ previous' = <<result>>
    /\ resolver' = "none"
    /\ idx' = 1
    /\ probed' = <<>>
    /\ result' = Pending
    /\ elapsed' = 0
    /\ UNCHANGED <<dom, selectors, elementName, inflight, flows, helperVars>>
    /\ UNCHANGED <<apiVars, uiVars, envVars, clientVars, emitVars, stubVars>>

\* between two reads the page changes (a navigation, a re-render)
Reuse_PageChanges ==
    /\ resolver = "none"
    /\ dom' \in GetterPages(selectors) \ {dom}
    /\ UNCHANGED <<resolver, selectors, elementName, idx, probed, result, elapsed>>
    /\ UNCHANGED <<apiVars, uiVars, envVars, clientVars, emitVars, stubVars, restVars, helperVars>>

NextReuse ==
    \/ FEWF_Call
    \/ FEWF_Iterate
    \/ Reuse_Resolved
    \/ Reuse_PageChanges

SpecReuse == InitReuse /\ [][NextReuse]_vars

-----------------------------------------------------------------------------
(* Properties of repeated reads *)

\* C18: every read of a getter probes its list again from the first entry
\* against the page as it is now: what the read gives is the first candidate
\* visible on the current page, or the error when there is none, whatever an
\* earlier read of the same getter gave.
C18_EveryReadReprobes ==
    (resolver = "findElementWithFallbacks" /\ Finished) =>
        /\ probed # <<>>
        /\ probed[1] = selectors[1]
        /\ IF MatchingPositions = {}
           THEN result.status = "thrown"
           ELSE /\ result.status = "returned"
                /\ \E i \in MatchingPositions :
                      /\ \A j \in MatchingPositions : i <= j
                      /\ result.selector = selectors[i]
                      /\ Len(probed) = i

\* a read gave a candidate, the page changed, and the next read of the same
\* getter gave another candidate
C18_Witness ==
    /\ resolver = "findElementWithFallbacks"
    /\ Finished
    /\ result.status = "returned"
    /\ previous # <<>>
    /\ previous[1].status = "returned"
    /\ previous[1].selector # result.selector
    /\ ~waitFor(dom[previous[1].selector])

-----------------------------------------------------------------------------
(* Specification of two EndpointDiscovery runs side by side: two processes *)
(* started in the same working directory, each against its own API         *)

FlowIds == {1, 2}

\* APPRABBIT_API_URL of each process
FlowEnv(f) == IF f = 1 THEN "" ELSE "https://staging.apprabbit.com"

\* new EndpointDiscovery() in process f, about to run()
NewFlow(f, srv) ==
    [server |-> srv, baseUrl |-> baseUrlOf(FlowEnv(f)),
     pc |-> "discoverFromNetworkRequests", pathIdx |-> 1, verbIdx |-> 1,
     discoveredEndpoints |-> <<>>]

InitFlows ==
    /\ \E a1, a2 \in {NoResponse, Response(200), Response(401)} :
          flows = [f \in FlowIds |->
                      NewFlow(f, UniformServer(IF f = 1 THEN a1 ELSE a2))]
    /\ files = NoFiles
    /\ clock = 0
    /\ emissions = <<>>
    /\ previous = <<>>
    /\ inflight = <<>>
    /\ HelpersIdle
    /\ ApiIdle
    /\ UiIdle
    /\ NoPage

\* one awaited testEndpoint call of flow f's loop
Flow_TestEndpoint(f) ==
    LET me     == flows[f]
        method == Verbs[me.verbIdx]
        path   == commonPaths[me.pathIdx]
        out    == testEndpoint(me.server, method, path, me.discoveredEndpoints)
        last   == me.pathIdx = Len(commonPaths) /\ me.verbIdx = Len(Verbs)
    IN  /\ me.pc = "discoverFromNetworkRequests"
        /\ me.pathIdx <= Len(commonPaths)
        /\ flows' = [flows EXCEPT ![f] =
                        [me EXCEPT
                           !.discoveredEndpoints = out.endpoints,
                           !.pc = IF out.threw THEN "failed"
                                  ELSE IF last THEN "generateApiClient" ELSE @,
                           !.verbIdx = IF out.threw THEN @
                                       ELSE IF @ < Len(Verbs) THEN @ + 1 ELSE 1,
                           !.pathIdx = IF out.threw \/ me.verbIdx < Len(Verbs)
                                       THEN @ ELSE @ + 1]]
        /\ UNCHANGED <<files, clock, previous, inflight, helperVars>>
        /\ UNCHANGED <<resolveVars, apiVars, uiVars, clientVars, emitVars, stubVars>>

\* generateApiClient of flow f: the text of its own endpoints, written to the
\* fixed path src/api/generated-client.ts
Flow_GenerateApiClient(f) ==
    LET me == flows[f] IN
    /\ me.pc = "generateApiClient"
    /\ \E writeOk \in BOOLEAN :
          IF writeOk
          THEN /\ files' = writeFile(files, "src/api/generated-client.ts",
                               TextFile(apiClientCode(me.baseUrl, me.discoveredEndpoints)))
               /\ flows' = [flows EXCEPT ![f].pc = "saveDiscoveredEndpoints"]
          ELSE /\ files' = files
               /\ flows' = [flows EXCEPT ![f].pc = "failed"]
    /\ UNCHANGED <<clock, previous, inflight, helperVars>>
    /\ UNCHANGED <<resolveVars, apiVars, uiVars, clientVars, emitVars, stubVars>>

\* saveDiscoveredEndpoints of flow f, to the fixed path discovered-endpoints.json
Flow_SaveDiscoveredEndpoints(f) ==
    LET me == flows[f] IN
    /\ me.pc = "saveDiscoveredEndpoints"
    /\ \E writeOk \in BOOLEAN :
          IF writeOk
          THEN /\ files' = writeFile(files, "discovered-endpoints.json",
                               JsonFile(discoveredEndpointsOutput(
                                            clock, me.baseUrl, me.discoveredEndpoints)))
               /\ flows' = [flows EXCEPT ![f].pc = "done"]
          ELSE /\ files' = files
               /\ flows' = [flows EXCEPT ![f].pc = "failed"]
    /\ UNCHANGED <<clock, previous, inflight, helperVars>>
    /\ UNCHANGED <<resolveVars, apiVars, uiVars, clientVars, emitVars, stubVars>>

NextFlows ==
    \E f \in FlowIds :
        \/ Flow_TestEndpoint(f)
        \/ Flow_GenerateApiClient(f)
        \/ Flow_SaveDiscoveredEndpoints(f)

SpecFlows == InitFlows /\ [][NextFlows]_vars

-----------------------------------------------------------------------------
(* Properties of concurrent discovery flows *)

\* C19 (as claimed): whatever the interleaving, a flow that completed has
\* left behind the generated client and the audit record derived from its
\* own probes: neither is overwritten by, or mixed with, the other flow's.
C19_FlowsLeaveTheirOwnOutput ==
    \A f \in DOMAIN flows :
        flows[f].pc = "done" =>
            /\ files["src/api/generated-client.ts"]
                 = TextFile(apiClientCode(flows[f].baseUrl, flows[f].discoveredEndpoints))
            /\ files["discovered-endpoints.json"].exists
            /\ files["discovered-endpoints.json"].json[1].baseUrl = flows[f].baseUrl
            /\ files["discovered-endpoints.json"].json[1].endpoints
                 = flows[f].discoveredEndpoints

-----------------------------------------------------------------------------
(* Specification of one discovery run of either kind *)

InitRuns == InitApi \/ InitUi

NextRuns == NextApi \/ NextUi

SpecRuns == InitRuns /\ [][NextRuns]_vars

-----------------------------------------------------------------------------
(* Properties of a failed stub write *)

\* a page-object stub of the running SelectorDiscovery could not be written
PageObjectWriteFailed ==
    /\ uiError = "writeFile"
    /\ \E p \in 1..Len(discoveredPages) :
          ~files[pageObjectFilename(discoveredPages[p])].exists

\* the API client of the running EndpointDiscovery could not be written
ApiClientWriteFailed ==
    /\ apc = "failed"
    /\ ~files["src/api/generated-client.ts"].exists

\* C20: once a stub could not be written the run is over with that error: it
\* is on its way out (closing the browser) or has rejected, it writes no
\* further stub and no audit record, and completion is reported only by a
\* run all of whose stubs and whose audit record were written.
C20_StubWriteFailureIsFatal ==
    /\ PageObjectWriteFailed =>
          /\ upc \in {"finally", "failed"}
          /\ upc = "failed" => ~browserOpen
          /\ \A p \in genIdx..Len(discoveredPages) :
                ~files[pageObjectFilename(discoveredPages[p])].exists
          /\ ~files["discovered-selectors.json"].exists
    /\ ApiClientWriteFailed => ~files["discovered-endpoints.json"].exists
    /\ upc = "done" =>
          /\ uiError = ""
          /\ \A p \in 1..Len(discoveredPages) :
                files[pageObjectFilename(discoveredPages[p])].exists
          /\ files["discovered-selectors.json"].exists
    /\ apc = "done" =>
          /\ files["src/api/generated-client.ts"].exists
          /\ files["discovered-endpoints.json"].exists

\* the run rejected at the second stub: the first stub is on disk, the second
\* and the audit record are not
C20_Witness ==
    /\ upc = "failed"
    /\ uiError = "writeFile"
    /\ Len(discoveredPages) = 2
    /\ files[pageObjectFilename(discoveredPages[1])].exists
    /\ ~files[pageObjectFilename(discoveredPages[2])].exists
    /\ ~files["discovered-selectors.json"].exists

-----------------------------------------------------------------------------
(* The operations of the page objects LoginPage and DashboardPage *)

\* the operations that read a getter: the getters each awaits, in order, and
\* what its own try/catch (if it has one) returns
LoginPage_login ==
    [name |-> "login", page |-> "LoginPage", catches |-> FALSE, onCatch |-> "",
     getters |-> <<LoginPage_emailInput, LoginPage_passwordInput, LoginPage_loginButton>>]

LoginPage_clickForgotPassword ==
    [name |-> "clickForgotPassword", page |-> "LoginPage", catches |-> FALSE, onCatch |-> "",
     getters |-> <<LoginPage_forgotPasswordLink>>]

LoginPage_getErrorMessage ==
    [name |-> "getErrorMessage", page |-> "LoginPage", catches |-> TRUE, onCatch |-> "null",
     getters |-> <<LoginPage_errorMessage>>]

LoginPage_isLoginFormVisible ==
    [name |-> "isLoginFormVisible", page |-> "LoginPage", catches |-> TRUE, onCatch |-> "false",
     getters |-> <<LoginPage_emailInput, LoginPage_passwordInput, LoginPage_loginButton>>]

DashboardPage_logout ==
    [name |-> "logout", page |-> "DashboardPage", catches |-> FALSE, onCatch |-> "",
     getters |-> <<DashboardPage_userMenu, DashboardPage_logoutButton>>]

DashboardPage_getUserName ==
    [name |-> "getUserName", page |-> "DashboardPage", catches |-> TRUE, onCatch |-> "null",
     getters |-> <<DashboardPage_userMenu>>]

DashboardPage_isDashboardLoaded ==
    [name |-> "isDashboardLoaded", page |-> "DashboardPage", catches |-> TRUE, onCatch |-> "false",
     getters |-> <<DashboardPage_dashboardContainer, DashboardPage_navigationMenu>>]

Operations ==
    { LoginPage_login, LoginPage_clickForgotPassword, LoginPage_getErrorMessage,
      LoginPage_isLoginFormVisible, DashboardPage_logout, DashboardPage_getUserName,
      DashboardPage_isDashboardLoaded }

OperationNamed(n) == CHOOSE op \in Operations : op.name = n

\* what the operation gives when every getter resolved and every element
\* action went through
Completes(op) ==
    CASE op.onCatch = "null"  -> "text"     \* textContent()
      [] op.onCatch = "false" -> "true"
      [] OTHER                -> "void"

\* the getters of one page class
GettersOf(page) ==
    IF page = "LoginPage"
    THEN {LoginPage_emailInput, LoginPage_passwordInput, LoginPage_loginButton,
          LoginPage_errorMessage, LoginPage_forgotPasswordLink}
    ELSE {DashboardPage_dashboardContainer, DashboardPage_userMenu,
          DashboardPage_navigationMenu, DashboardPage_logoutButton,
          DashboardPage_appsSection}

\* the pages a page object can be used on: the elements of the getters in
\* missing are not there, each other getter finds its element under its
\* first or its last selector
OperationPages(page) ==
    { [s \in UNION {Range(L) : L \in GettersOf(page)} |->
          IF \E L \in GettersOf(page) \ missing :
                s = L[IF L \in byLast THEN Len(L) ELSE 1]
          THEN Visible ELSE Absent] :
        missing \in SUBSET GettersOf(page),
        byLast \in {{}, GettersOf(page)} }

InitOps ==
    /\ \E page \in {"LoginPage", "DashboardPage"} :
          /\ dom \in OperationPages(page)
          /\ pageUrl = IF page = "LoginPage" THEN "/login" ELSE "/dashboard"
    /\ selectors = <<>>
    /\ elementName = <<>>
    /\ ResolveIdle
    /\ ApiIdle
    /\ upc = "idle"
    /\ browserOpen = TRUE
    /\ catIdx = 1
    /\ localSelectors = <<>>
    /\ discoveredPages = <<>>
    /\ genIdx = 1
    /\ uiError = ""
    /\ EnvIdle

\* a test calls an operation of the page object of the page it is on
Ops_Call ==
    /\ call = <<>>
    /\ \E op \in Operations :
          /\ Range(op.getters) \subseteq GettersOf(IF pageUrl = "/login"
                                                   THEN "LoginPage" ELSE "DashboardPage")
          /\ call' = [op |-> op.name, step |-> 1, outcome |-> "running",
                      value |-> "", error |-> <<>>]
    /\ UNCHANGED <<authToken, sent, jira>>
    /\ UNCHANGED <<resolveVars, apiVars, uiVars, envVars, clientVars, emitVars,
                   stubVars, restVars>>

\* the operation awaits its next getter, which calls findElementWithFallbacks
Ops_Get ==
    /\ call # <<>>
    /\ call.outcome = "running"
    /\ resolver = "none"
    /\ selectors' = OperationNamed(call.op).getters[call.step]
    /\ resolver' = "findElementWithFallbacks"
    /\ idx' = 1
    /\ probed' = <<>>
    /\ result' = Pending
    /\ elapsed' = 0
    /\ UNCHANGED <<dom, elementName, helperVars>>
    /\ UNCHANGED <<apiVars, uiVars, envVars, clientVars, emitVars, stubVars, restVars>>

\* how the operation goes on once the getter settled with res: a locator is
\* acted on and the next statement follows; a rejection leaves the operation
\* unless the operation's own try/catch takes it
Settle(c, op, res) ==
    IF res.status = "returned"
    THEN IF c.step < Len(op.getters)
         THEN [c EXCEPT !.step = c.step + 1]
         ELSE [c EXCEPT !.outcome = "returned", !.value = Completes(op)]
    ELSE IF op.catches
         THEN [c EXCEPT !.outcome = "returned", !.value = op.onCatch]
         ELSE [c EXCEPT !.outcome = "rejected", !.error = res.message]

Ops_Settle ==
    /\ call # <<>>
    /\ call.outcome = "running"
    /\ resolver = "findElementWithFallbacks"
    /\ result.status # "pending"
    /\ call' = Settle(call, OperationNamed(call.op), result)
    /\ resolver' = "none"
    /\ idx' = 1
    /\ probed' = <<>>
    /\ result' = Pending
    /\ elapsed' = 0
    /\ UNCHANGED <<dom, selectors, elementName, authToken, sent, jira>>
    /\ UNCHANGED <<apiVars, uiVars, envVars, clientVars, emitVars, stubVars, restVars>>

NextOps ==
    \/ Ops_Call
    \/ Ops_Get
    \/ FEWF_Iterate
    \/ Ops_Settle

SpecOps == InitOps /\ [][NextOps]_vars

\* C21: a resolution failure raised inside a page-object operation never
\* leaves the operation as an exception: the operation ends with a returned
\* value (null, false) and never rejects
C21_FailureNeverLeavesOperation ==
    call # <<>> => call.outcome # "rejected"

-----------------------------------------------------------------------------
(* Existence, not visibility, decides a match of discovery *)

\* the positions of the list whose selector meets an element on the page,
\* visible or not
ExistingPositions ==
    {i \in 1..Len(selectors) : dom[selectors[i]].kind = "element"}

\* C22: in UI discovery a candidate matches as soon as an element for it
\* exists, visible or not: a finished findBestSelector returns the first
\* candidate whose element exists, whatever the visibility of that element
\* or of later ones, and the record carries the observed visibility.
C22_ExistenceDecidesVisibilityRecorded ==
    (resolver = "findBestSelector" /\ Finished) =>
        IF ExistingPositions = {}
        THEN result.found = <<>>
        ELSE /\ Len(result.found) = 1
             /\ \E i \in ExistingPositions :
                   /\ \A j \in ExistingPositions : i <= j
                   /\ result.found[1].selector = selectors[i]
                   /\ result.found[1].isVisible = dom[selectors[i]].isVisible

\* a hidden earlier candidate won over a visible later one and was recorded
\* with isVisible = false
C22_Witness ==
    /\ resolver = "findBestSelector"
    /\ Finished
    /\ Len(result.found) = 1
    /\ result.found[1].isVisible = FALSE
    /\ \E i, j \in ExistingPositions :
          /\ i < j
          /\ result.found[1].selector = selectors[i]
          /\ dom[selectors[j]].isVisible

-----------------------------------------------------------------------------
(* The page a catalog is probed on *)

\* the url of the page entry the running discover method will push
EntryUrlInProgress ==
    CASE upc = "discoverLoginPage"     -> "/login"
      [] upc = "discoverDashboardPage" -> "/dashboard"
      [] OTHER                         -> pageUrl

\* C23: the selectors recorded under a page entry were probed while the
\* browser page was at that entry's url: whenever a discover method is
\* probing its catalog, the page is at the url the method records.
C23_ProbedAtEntryUrl ==
    upc \in {"discoverLoginPage", "discoverDashboardPage"} =>
        pageUrl = EntryUrlInProgress

-----------------------------------------------------------------------------
(* The generated API client in use *)

\* at most this many endpoints in the record a client is generated from
MaxRecorded == 2

\* the records of up to n endpoints discoverFromNetworkRequests can leave, in the order
\* of its loop (path by path, GET before POST), each with either auth flag
AttemptOrder == [k \in 1..(Len(commonPaths) * Len(Verbs)) |->
                    <<Verbs[((k - 1) % Len(Verbs)) + 1],
                      commonPaths[((k - 1) \div Len(Verbs)) + 1]>>]

Records(n) ==
    UNION { { [i \in 1..Cardinality(P) |->
                  LET k == CHOOSE k \in P : Cardinality({j \in P : j < k}) = i - 1 IN
                  [method       |-> AttemptOrder[k][1],
                   url          |-> AttemptOrder[k][2],
                   description  |-> getEndpointDescription(AttemptOrder[k][2]),
                   authRequired |-> k \in A] ] :
              A \in SUBSET P } :
            P \in SubsetsUpTo(1..Len(AttemptOrder), n) \ {{}} }

\* the pieces of the k-th method of the generated client text: the class
\* header is three pieces, a method thirteen, methods are joined by "\n"
MethodText(text, k) == SubSeq(text, 4 + 14 * (k - 1), 16 + 14 * (k - 1))

\* the names a template literal interpolates: each ${name} of its text
Interpolated(cs) ==
    { SubSeq(cs, i + 2, RunEnd(cs, i + 2, WordChars)) :
        i \in {j \in 1..(Len(cs) - 1) : cs[j] = "$" /\ cs[j + 1] = "{"} }

\* the url template of an emitted method, as characters
UrlTemplate(m) ==
    ExpandParams(commonPathChars[
        CHOOSE i \in 1..Len(commonPaths) : Str(ExpandParams(commonPathChars[i])) = m[6]])

\* the identifiers an emitted method has in scope besides this: its parameters
InScope(m) ==
    IF m[4] = "" THEN {<<"d","a","t","a">>}
    ELSE {<<"p","a","r","a","m","s">>, <<"d","a","t","a">>}

\* what a call of the emitted method m does, with this.authToken = token and
\* the argument data ("" when left out): evaluating the url template throws a
\* ReferenceError when it interpolates a name that is not in scope; otherwise
\* fetch is called with the method, headers and body of the emitted text
InvokeGenerated(m, token, data) ==
    IF ~(Interpolated(UrlTemplate(m)) \subseteq InScope(m))
    THEN [outcome |-> "ReferenceError", method |-> "", url |-> <<>>,
          authorization |-> "", body |-> ""]
    ELSE [outcome       |-> "fetched",
          method        |-> m[10],
          url           |-> UrlTemplate(m),
          authorization |-> IF m[8] # "" /\ token # "" THEN "Bearer " \o token ELSE "",
          body          |-> IF m[12] # "" /\ data # "" THEN data ELSE ""]

InitGen ==
    /\ discoveredEndpoints \in Records(MaxRecorded)
    /\ server = [r \in Routes |-> NoResponse]
    /\ apc = "generateApiClient"
    /\ pathIdx = Len(commonPaths) + 1
    /\ verbIdx = 1
    /\ attempts = <<>>
    /\ baseUrl = baseUrlOf("")
    /\ available = <<>>
    /\ EnvIdle
    /\ NoPage
    /\ UiIdle

\* a test sets the token of the generated client: setAuthToken(token)
Gen_SetAuthToken ==
    /\ files["src/api/generated-client.ts"].exists
    /\ call = <<>>
    /\ authToken = ""
    /\ authToken' = "token"
    /\ UNCHANGED <<call, sent, jira>>
    /\ UNCHANGED <<resolveVars, apiVars, uiVars, envVars, clientVars, emitVars,
                   stubVars, restVars>>

\* a test calls the k-th method of the generated client, with or without data
Gen_Invoke ==
    /\ files["src/api/generated-client.ts"].exists
    /\ call = <<>>
    /\ \E k \in 1..Len(discoveredEndpoints), data \in {"", "data"} :
          call' = [k |-> k, data |-> data, token |-> authToken,
                   does |-> InvokeGenerated(
                               MethodText(files["src/api/generated-client.ts"].text, k),
                               authToken, data)]
    /\ UNCHANGED <<authToken, sent, jira>>
    /\ UNCHANGED <<resolveVars, apiVars, uiVars, envVars, clientVars, emitVars,
                   stubVars, restVars>>

NextGen ==
    \/ Api_GenerateApiClient
    \/ Gen_SetAuthToken
    \/ Gen_Invoke

SpecGen == InitGen /\ [][NextGen]_vars

\* C24: the generated method of a recorded endpoint issues the recorded verb
\* against the recorded path, sends a body if and only if the verb is not
\* GET, and adds the Authorization header only when the endpoint was recorded
\* as authRequired and a token has been set.
C24_MethodBindsItsRecord ==
    call # <<>> =>
        LET endpoint == discoveredEndpoints[call.k] IN
        /\ call.does.outcome = "fetched"
        /\ call.does.method = endpoint.method
        /\ call.does.url = ExpandParams(CharsOf(endpoint.url))
        /\ (call.does.body # "") <=> (endpoint.method # "GET")
        /\ (call.does.authorization # "") <=>
              (endpoint.authRequired /\ call.token # "")

\* the name an emitted method declares: the piece after "async "
EmittedName(m) == m[2]

\* C25: every recorded endpoint yields exactly one method of the generated
\* client, in record order, and no two methods of one generated client share
\* a name.
C25_OneMethodEachDistinctNames ==
    files["src/api/generated-client.ts"].exists =>
        LET text == files["src/api/generated-client.ts"].text
            n    == Len(discoveredEndpoints)
        IN  /\ Len(text) = 3 + 13 * n + (n - 1) + 1
            /\ \A k \in 1..n :
                  /\ MethodText(text, k)[10] = discoveredEndpoints[k].method
                  /\ MethodText(text, k)[6] =
                        Str(ExpandParams(CharsOf(discoveredEndpoints[k].url)))
            /\ \A j, k \in 1..n :
                  j < k => EmittedName(MethodText(text, j)) # EmittedName(MethodText(text, k))

-----------------------------------------------------------------------------
(* The ApiClient test helper: the stored token and the requests it sends *)

\* at most this many requests are sent in one session
MaxSent == 3

\* the tokens a test or a login response can supply
Tokens == {"t1", "t2"}

\* how a request can end: axios resolves on a 2xx answer (threw = FALSE) and
\* rejects on any other status or without an answer; token is
\* response.data.token ("" when the body has none)
Outcomes ==
    {[threw |-> TRUE, token |-> ""]} \cup
    {[threw |-> FALSE, token |-> t] : t \in Tokens \cup {""}}

\* faulty variant: the header is fixed by the first request of the session
requestInterceptor_stale(token, config) ==
    IF sent # <<>>
    THEN [config EXCEPT !.authorization = sent[1].authorization]
    ELSE [config EXCEPT !.authorization =
                            IF token # "" THEN "Bearer " \o token ELSE ""]

\* the request interceptor: if (this.authToken) config.headers.Authorization =
\* 'Bearer ' + this.authToken; return config
requestInterceptor(token, config) ==
    [config EXCEPT !.authorization =
                       IF token # "" THEN "Bearer " \o token ELSE config.authorization]

\* the config axios hands to the interceptor: no Authorization header among
\* the instance defaults
Config(method, url) == [method |-> method, url |-> url, authorization |-> ""]

\* faulty variant: a failed login drops the stored token
afterLogin_reset(token, answer) ==
    IF ~answer.threw /\ answer.token # "" THEN answer.token ELSE ""

\* login, after the awaited post: if (response.data.token) this.setAuthToken(...)
\* (a rejected post leaves the method before that statement)
afterLogin(token, answer) ==
    IF answer.threw THEN token
    ELSE IF answer.token # "" THEN answer.token ELSE token

\* faulty variant: the token is cleared whatever the request did
afterLogout_always(token, answer) == ""

\* logout, after the awaited post: this.clearAuthToken()
afterLogout(token, answer) ==
    IF answer.threw THEN token ELSE ""

\* one entry of the history: the operation, the token stored when the request
\* was issued, the request as sent, how it ended, the token stored afterwards
Sent(op, stored, config, answer, after) ==
    [op |-> op, stored |-> stored, method |-> config.method, url |-> config.url,
     authorization |-> config.authorization, threw |-> answer.threw,
     answered |-> answer.token, after |-> after]

InitClient ==
    /\ authToken = ""
    /\ sent = <<>>
    /\ call = <<>>
    /\ jira = <<>>
    /\ HistoriesIdle
    /\ ResolveIdle
    /\ ApiIdle
    /\ UiIdle
    /\ NoPage

\* setAuthToken(token)
Client_SetAuthToken ==
    /\ \E t \in Tokens : authToken' = t
    /\ UNCHANGED <<call, sent, jira>>
    /\ UNCHANGED <<resolveVars, apiVars, uiVars, envVars, clientVars, emitVars,
                   stubVars, restVars>>

\* clearAuthToken()
Client_ClearAuthToken ==
    /\ authToken # ""
    /\ authToken' = ""
    /\ UNCHANGED <<call, sent, jira>>
    /\ UNCHANGED <<resolveVars, apiVars, uiVars, envVars, clientVars, emitVars,
                   stubVars, restVars>>

\* login(credentials)
Client_Login ==
    /\ Len(sent) < MaxSent
    /\ \E answer \in Outcomes :
          /\ authToken' = afterLogin(authToken, answer)
          /\ sent' = Append(sent,
                 Sent("login", authToken,
                      requestInterceptor(authToken, Config("POST", "/auth/login")),
                      answer, authToken'))
    /\ UNCHANGED <<call, jira>>
    /\ UNCHANGED <<resolveVars, apiVars, uiVars, envVars, clientVars, emitVars,
                   stubVars, restVars>>

\* logout()
Client_Logout ==
    /\ Len(sent) < MaxSent
    /\ \E answer \in {a \in Outcomes : a.token = ""} :
          /\ authToken' = afterLogout(authToken, answer)
          /\ sent' = Append(sent,
                 Sent("logout", authToken,
                      requestInterceptor(authToken, Config("POST", "/auth/logout")),
                      answer, authToken'))
    /\ UNCHANGED <<call, jira>>
    /\ UNCHANGED <<resolveVars, apiVars, uiVars, envVars, clientVars, emitVars,
                   stubVars, restVars>>

\* getUserProfile(): any of the operations that only send a request
Client_GetUserProfile ==
    /\ Len(sent) < MaxSent
    /\ \E answer \in {a \in Outcomes : a.token = ""} :
          sent' = Append(sent,
                 Sent("getUserProfile", authToken,
                      requestInterceptor(authToken, Config("GET", "/user/profile")),
                      answer, authToken))
    /\ UNCHANGED <<call, authToken, jira>>
    /\ UNCHANGED <<resolveVars, apiVars, uiVars, envVars, clientVars, emitVars,
                   stubVars, restVars>>

NextClient ==
    \/ Client_SetAuthToken
    \/ Client_ClearAuthToken
    \/ Client_Login
    \/ Client_Logout
    \/ Client_GetUserProfile

SpecClient == InitClient /\ [][NextClient]_vars

\* C26: every request the ApiClient sent carries 'Authorization: Bearer
\* <token>' with the token stored when the request was issued, and carries no
\* Authorization header when none was stored then.
C26_HeaderFollowsStoredToken ==
    \A k \in 1..Len(sent) :
        sent[k].authorization =
            IF sent[k].stored # "" THEN "Bearer " \o sent[k].stored ELSE ""

\* two requests of one session went out under different tokens, and a later
\* one with no token and no header
C26_Witness ==
    \E i, j, k \in 1..Len(sent) :
        /\ i < j /\ j < k
        /\ sent[i].authorization = "Bearer t1"
        /\ sent[j].authorization = "Bearer t2"
        /\ sent[k].stored = ""
        /\ sent[k].authorization = ""

\* C27: login replaces the stored token if and only if its request succeeds
\* and the response body holds a token; a login that throws or whose response
\* has no token leaves the stored token as it was, and the next request
\* carries that earlier token.
C27_LoginReplacesTokenOnlyOnSuccess ==
    \A k \in 1..Len(sent) :
        sent[k].op = "login" =>
            /\ sent[k].after =
                  IF ~sent[k].threw /\ sent[k].answered # ""
                  THEN sent[k].answered ELSE sent[k].stored
            /\ (k < Len(sent) /\ sent[k].threw /\ sent[k + 1].stored = sent[k].after) =>
                  sent[k + 1].authorization =
                      IF sent[k].stored # "" THEN "Bearer " \o sent[k].stored ELSE ""

\* a login threw while a token was stored, and the request after it went out
\* under that token
C27_Witness ==
    \E k \in 1..(Len(sent) - 1) :
        /\ sent[k].op = "login"
        /\ sent[k].threw
        /\ sent[k].stored = "t1"
        /\ sent[k + 1].authorization = "Bearer t1"

\* C28: logout clears the stored token only after its request returned
\* successfully; when the request throws the token stays stored and the next
\* request carries it.
C28_LogoutClearsOnlyAfterSuccess ==
    \A k \in 1..Len(sent) :
        sent[k].op = "logout" =>
            /\ sent[k].after = IF sent[k].threw THEN sent[k].stored ELSE ""
            /\ (k < Len(sent) /\ sent[k].threw /\ sent[k + 1].stored = sent[k].after) =>
                  sent[k + 1].authorization =
                      IF sent[k].stored # "" THEN "Bearer " \o sent[k].stored ELSE ""

\* a logout threw while a token was stored, and the request after it went out
\* under that token
C28_Witness ==
    \E k \in 1..(Len(sent) - 1) :
        /\ sent[k].op = "logout"
        /\ sent[k].threw
        /\ sent[k].stored = "t2"
        /\ sent[k].after = "t2"
        /\ sent[k + 1].authorization = "Bearer t2"

-----------------------------------------------------------------------------
(* SelectorDiscovery.run: the browser is released on every path *)

\* a run against each page on which the first n logical names are found
InitUiFair ==
    /\ dom \in {PageWithFirst(n) : n \in 0..Len(Catalog)}
    /\ upc = "initialize"
    /\ browserOpen = FALSE
    /\ pageUrl = ""
    /\ catIdx = 1
    /\ localSelectors = <<>>
    /\ discoveredPages = <<>>
    /\ genIdx = 1
    /\ uiError = ""
    /\ selectors = <<>>
    /\ elementName = <<>>
    /\ ResolveIdle
    /\ ApiIdle
    /\ EnvIdle

\* every awaited step of run settles: it resolves or it rejects
SpecUiFair == InitUiFair /\ [][NextUi]_vars /\ WF_vars(NextUi)

\* C29: once initialize has completed, the browser is closed on every path
\* of run (whether discovery, generation and save complete or one of them
\* throws), and nothing of the run is probed or written after the close.
C29_BrowserClosedOnEveryPath ==
    /\ browserOpen ~> (~browserOpen /\ upc \in {"done", "failed"})
    /\ [][(~browserOpen /\ upc \in {"done", "failed"}) =>
             UNCHANGED <<files, discoveredPages, localSelectors, catIdx, genIdx,
                         pageUrl, browserOpen>>]_vars

\* a run whose stub write was rejected after both pages were discovered has
\* ended with the browser closed
C29_Witness ==
    /\ upc = "failed"
    /\ uiError = "writeFile"
    /\ Len(discoveredPages) = 2
    /\ ~browserOpen

-----------------------------------------------------------------------------
(* JiraClient.createBugFromTestFailure *)

\* the failures a reporter hands over (screenshot "" when there is none)
Failures ==
    [testName   : {"login fails", "auth token expired", "apps list"},
     testFile   : {"tests/api/auth.test.ts", "tests/ui/login.test.ts"},
     screenshot : {"", "screenshots/failure.png"}]

\* the keys the tracker can give a new issue
IssueKeys == {"ALT-1", "ALT-2", "ALT-3"}

\* faulty variant: no try/catch, a failed upload rejects
attachScreenshot_nocatch(uploadOk) == [threw |-> ~uploadOk]

\* attachScreenshot: try { await this.jira.addAttachmentOnIssue(...) }
\* catch (error) { console.error(...) }: it resolves whatever the upload did
attachScreenshot(uploadOk) == [threw |-> FALSE]

InitJira ==
    /\ jira = <<>>
    /\ call = <<>>
    /\ authToken = ""
    /\ sent = <<>>
    /\ HistoriesIdle
    /\ ResolveIdle
    /\ ApiIdle
    /\ UiIdle
    /\ NoPage

\* a reporter calls createBugFromTestFailure(failure); the issue literal is built
Jira_Call ==
    /\ jira = <<>>
    /\ \E failure \in Failures :
          jira' = [pc |-> "addNewIssue", failure |-> failure, log |-> <<>>,
                   key |-> "", outcome |-> "running", returned |-> ""]
    /\ UNCHANGED <<call, authToken, sent>>
    /\ UNCHANGED <<resolveVars, apiVars, uiVars, envVars, clientVars, emitVars,
                   stubVars, restVars>>

\* const createdIssue = await this.jira.addNewIssue(issue)
Jira_AddNewIssue ==
    /\ jira # <<>>
    /\ jira.pc = "addNewIssue"
    /\ \/ \E k \in IssueKeys :
             jira' = [jira EXCEPT
                        !.log = Append(@, [op |-> "addNewIssue", ok |-> TRUE,
                                           key |-> k, path |-> ""]),
                        !.key = k,
                        !.pc = IF jira.failure.screenshot # ""
                               THEN "attachScreenshot" ELSE "return"]
       \/ jira' = [jira EXCEPT
                     !.log = Append(@, [op |-> "addNewIssue", ok |-> FALSE,
                                        key |-> "", path |-> ""]),
                     !.pc = "done",
                     !.outcome = "rejected"]
    /\ UNCHANGED <<call, authToken, sent>>
    /\ UNCHANGED <<resolveVars, apiVars, uiVars, envVars, clientVars, emitVars,
                   stubVars, restVars>>

\* if (failure.screenshot) await this.attachScreenshot(createdIssue.key, failure.screenshot)
Jira_AttachScreenshot ==
    /\ jira # <<>>
    /\ jira.pc = "attachScreenshot"
    /\ \E uploadOk \in BOOLEAN :
          jira' = [jira EXCEPT
                     !.log = Append(@, [op |-> "addAttachmentOnIssue", ok |-> uploadOk,
                                        key |-> jira.key,
                                        path |-> jira.failure.screenshot]),
                     !.pc = IF attachScreenshot(uploadOk).threw THEN "done" ELSE "return",
                     !.outcome = IF attachScreenshot(uploadOk).threw
                                 THEN "rejected" ELSE @]
    /\ UNCHANGED <<call, authToken, sent>>
    /\ UNCHANGED <<resolveVars, apiVars, uiVars, envVars, clientVars, emitVars,
                   stubVars, restVars>>

\* return createdIssue.key
Jira_Return ==
    /\ jira # <<>>
    /\ jira.pc = "return"
    /\ jira' = [jira EXCEPT !.pc = "done", !.outcome = "returned", !.returned = jira.key]
    /\ UNCHANGED <<call, authToken, sent>>
    /\ UNCHANGED <<resolveVars, apiVars, uiVars, envVars, clientVars, emitVars,
                   stubVars, restVars>>

NextJira ==
    \/ Jira_Call
    \/ Jira_AddNewIssue
    \/ Jira_AttachScreenshot
    \/ Jira_Return

SpecJira == InitJira /\ [][NextJira]_vars

\* the positions of the tracker log at which op was called
LoggedAt(op) == {i \in 1..Len(jira.log) : jira.log[i].op = op}

\* C30: createBugFromTestFailure returns the key of the created issue whenever
\* creation succeeds, even if the attachment fails; an attachment is attempted
\* only for a failure with a screenshot path and only after the issue was
\* created, on that issue; when creation fails nothing is attached and the
\* call rejects.
C30_KeyReturnedWhateverTheAttachment ==
    jira # <<>> =>
        /\ \A i \in LoggedAt("addAttachmentOnIssue") :
              /\ jira.failure.screenshot # ""
              /\ jira.log[i].path = jira.failure.screenshot
              /\ \E j \in LoggedAt("addNewIssue") :
                    j < i /\ jira.log[j].ok /\ jira.log[i].key = jira.log[j].key
        /\ jira.pc = "done" =>
              /\ Cardinality(LoggedAt("addNewIssue")) = 1
              /\ IF jira.log[1].ok
                 THEN /\ jira.outcome = "returned"
                      /\ jira.returned = jira.log[1].key
                      /\ (jira.failure.screenshot # "") <=>
                            (LoggedAt("addAttachmentOnIssue") # {})
                 ELSE /\ jira.outcome = "rejected"
                      /\ LoggedAt("addAttachmentOnIssue") = {}

\* the call returned the key of an issue whose screenshot upload had failed
C30_Witness ==
    /\ jira # <<>>
    /\ jira.pc = "done"
    /\ jira.outcome = "returned"
    /\ jira.returned = "ALT-2"
    /\ \E i \in LoggedAt("addAttachmentOnIssue") : ~jira.log[i].ok

=============================================================================
